---- MODULE Spec2Model ----
(***************************************************************************)
(* Request-time policy state machine of agentkit (createAgentkitHooks):   *)
(* the request hook and the discount-mode verify-failure hook, run by     *)
(* several concurrent invocations that interleave at every await, over    *)
(* the usage store, the nonce set, the pending-discount map and a clock.  *)
(***************************************************************************)
EXTENDS Integers, Sequences, FiniteSets, TLC

\* ------------------------------------------------------------------ bounds

\* Hook invocations that may be in flight at once.
MaxInFlight == 2
\* Hook invocations started in one behaviour.
MaxCalls == 3
\* Clock ticks in one behaviour.
MaxTicks == 1

\* Milliseconds the clock advances per tick.
TickMs == 300001

\* ------------------------------------------------------- program constants

PENDING_TTL_MS == 300000
DEFAULT_MAX_AGE_MS == 300000

AGENTKIT == "agentkit"

UNDERPAYMENT_REASONS ==
    { "invalid_exact_evm_payload_authorization_value",
      "permit2_insufficient_amount",
      "insufficient_funds" }

\* JavaScript's undefined and null.
Undefined == "undefined"
Null == "null"

\* ------------------------------------------------------------ JS built-ins

\* String.prototype.toLowerCase on the header names in use.
ToLowerCase(s) ==
    CASE s = "Agentkit" -> "agentkit"
      [] s = "AGENTKIT" -> "agentkit"
      [] OTHER -> s

\* A parse that takes the host (with its port) for the hostname.
ParseUrlHost(s) ==
    CASE s = "https://api.x/data" ->
            [ok |-> TRUE, origin |-> "https://api.x", hostname |-> "api.x", pathname |-> "/data"]
      [] s = "https://api.x/other" ->
            [ok |-> TRUE, origin |-> "https://api.x", hostname |-> "api.x", pathname |-> "/other"]
      [] s = "http://api.x/data" ->
            [ok |-> TRUE, origin |-> "http://api.x", hostname |-> "api.x", pathname |-> "/data"]
      [] s = "https://evil.x/data" ->
            [ok |-> TRUE, origin |-> "https://evil.x", hostname |-> "evil.x", pathname |-> "/data"]
      [] s = "https://api.x:8443/data" ->
            [ok |-> TRUE, origin |-> "https://api.x:8443", hostname |-> "api.x:8443", pathname |-> "/data"]
      [] OTHER ->
            [ok |-> FALSE, origin |-> Undefined, hostname |-> Undefined, pathname |-> Undefined]

\* new URL(s): the parsed parts of the URL strings in use; any other string
\* makes the constructor throw (ok = FALSE).
ParseUrl(s) ==
    CASE s = "https://api.x/data" ->
            [ok |-> TRUE, origin |-> "https://api.x", hostname |-> "api.x", pathname |-> "/data"]
      [] s = "https://api.x/other" ->
            [ok |-> TRUE, origin |-> "https://api.x", hostname |-> "api.x", pathname |-> "/other"]
      [] s = "http://api.x/data" ->
            [ok |-> TRUE, origin |-> "http://api.x", hostname |-> "api.x", pathname |-> "/data"]
      [] s = "https://evil.x/data" ->
            [ok |-> TRUE, origin |-> "https://evil.x", hostname |-> "evil.x", pathname |-> "/data"]
      [] s = "https://api.x:8443/data" ->
            [ok |-> TRUE, origin |-> "https://api.x:8443", hostname |-> "api.x", pathname |-> "/data"]
      [] OTHER ->
            [ok |-> FALSE, origin |-> Undefined, hostname |-> Undefined, pathname |-> Undefined]

\* A reading of the timestamp in seconds instead of milliseconds.
DateGetTimeSeconds(s) ==
    CASE s = "1970-01-01T00:00:00.000Z" -> [nan |-> FALSE, ms |-> 0]
      [] s = "1970-01-01T00:03:20.000Z" -> [nan |-> FALSE, ms |-> 200]
      [] s = "1970-01-01T00:06:40.000Z" -> [nan |-> FALSE, ms |-> 400]
      [] s = "1970-01-01T00:10:00.000Z" -> [nan |-> FALSE, ms |-> 600]
      [] OTHER -> [nan |-> TRUE, ms |-> 0]

\* new Date(s).getTime(): milliseconds since the epoch; nan for a string that
\* is not a timestamp.
DateGetTime(s) ==
    CASE s = "1970-01-01T00:00:00.000Z" -> [nan |-> FALSE, ms |-> 0]
      [] s = "1970-01-01T00:03:20.000Z" -> [nan |-> FALSE, ms |-> 200000]
      [] s = "1970-01-01T00:06:40.000Z" -> [nan |-> FALSE, ms |-> 400000]
      [] s = "1970-01-01T00:10:00.000Z" -> [nan |-> FALSE, ms |-> 600000]
      [] OTHER -> [nan |-> TRUE, ms |-> 0]

\* The decimal integer strings in use, and the integer each denotes.
DecimalValue(s) ==
    CASE s = "1000" -> 1000
      [] s = "1001" -> 1001
      [] s = "999" -> 999
      [] s = "500" -> 500
      [] s = "499" -> 499
      [] s = "400" -> 400
      [] s = "3" -> 3
      [] s = "2" -> 2
      [] s = "1" -> 1
      [] s = "0" -> 0
      [] s = "-1" -> -1
      [] s = "-2" -> -2
      [] s = "-3" -> -3

DecimalStrings ==
    {"1000", "1001", "999", "500", "499", "400", "3", "2", "1", "0", "-1", "-2", "-3"}

\* BigInt(s): the integer, or threw when BigInt raises a SyntaxError. The
\* empty string converts to 0n; leading zeros and a hexadecimal prefix are
\* accepted.
BigIntOf(s) ==
    CASE s \in DecimalStrings -> [threw |-> FALSE, n |-> DecimalValue(s)]
      [] s = "0500" -> [threw |-> FALSE, n |-> 500]
      [] s = "0x3" -> [threw |-> FALSE, n |-> 3]
      [] s = "" -> [threw |-> FALSE, n |-> 0]
      [] OTHER -> [threw |-> TRUE, n |-> 0]

\* String(n) of a bigint: its canonical decimal string.
StringOfBigInt(n) == ToString(n)

\* BigInt division truncates toward zero.
BigIntDiv(a, b) ==
    IF a >= 0 THEN a \div b ELSE -((-a) \div b)

\* A conversion that writes the decimal digits after the prefix.
ToHexDecimal(n) == "0x" \o ToString(n)

\* viem toHex of a positive bigint.
HexDigits == <<"1", "2", "3", "4", "5", "6", "7", "8", "9", "a", "b", "c", "d", "e", "f">>

ToHex(n) ==
    IF n < 16 THEN "0x" \o HexDigits[n]
    ELSE "0x" \o HexDigits[n \div 16] \o (IF n % 16 = 0 THEN "0" ELSE HexDigits[n % 16])

\* An optional property of an object: present and truthy.
Has(obj, f) == f \in DOMAIN obj

Truthy(obj, f) == Has(obj, f) /\ obj[f] # "" /\ obj[f] # Undefined

\* --------------------------------------------------------------- chain ids

\* chainId.startsWith('eip155:') / startsWith('solana:') on the chain ids in use.
StartsWithEip155(chainId) == chainId \in {"eip155:8453", "eip155:1", "eip155:abc"}

StartsWithSolana(chainId) == chainId \in {"solana:5eykt4UsFv8P8NJdTREpY1vzqKqZKvdp"}

\* /^eip155:(\d+)$/ : the numeric chain id, or threw when the id does not match.
extractEVMChainId(chainId) ==
    IF chainId = "eip155:8453" THEN [threw |-> FALSE, id |-> 8453]
    ELSE IF chainId = "eip155:1" THEN [threw |-> FALSE, id |-> 1]
    ELSE [threw |-> TRUE, id |-> 0]

\* chainId.split(':')[1]
extractSolanaChainReference(chainId) ==
    CASE chainId = "solana:5eykt4UsFv8P8NJdTREpY1vzqKqZKvdp" -> "5eykt4UsFv8P8NJdTREpY1vzqKqZKvdp"
      [] chainId = "eip155:8453" -> "8453"
      [] chainId = "eip155:1" -> "1"
      [] chainId = "eip155:abc" -> "abc"
      [] chainId = "cosmos:hub" -> "hub"
      [] OTHER -> Undefined

\* An optional field of the payload, undefined when absent.
Field(obj, f) == IF Has(obj, f) THEN obj[f] ELSE Undefined

\* The fields both message formats sign, in the order they are written.
MessageFields(info) ==
    << Field(info, "statement"), info.uri, info.version, info.nonce, info.issuedAt,
       Field(info, "expirationTime"), Field(info, "notBefore"),
       Field(info, "requestId"), Field(info, "resources") >>

\* The EIP-4361 message; threw when the chain id is not eip155:<number>.
formatSIWEMessage(info, address) ==
    LET chain == extractEVMChainId(info.chainId)
    IN  IF chain.threw
        THEN [threw |-> TRUE, text |-> <<>>]
        ELSE [threw |-> FALSE,
              text |-> <<"siwe", info.domain, address, chain.id>> \o MessageFields(info)]

formatSIWSMessage(info, address) ==
    [threw |-> FALSE,
     text |-> <<"siws", info.domain, address, extractSolanaChainReference(info.chainId)>>
              \o MessageFields(info)]

\* ---------------------------------------------------------------- wallets

\* The wallet addresses in use and the bytes each decodes to under base58
\* (0 when the string is not base58).
DecodedLength(address) ==
    CASE address = "So1A" -> 32
      [] address = "So1Short" -> 31
      [] OTHER -> 0

\* The AgentBook contract's lookupHuman(address): 0 for an unregistered agent.
Registry(address) ==
    CASE address = "0xA" -> 1
      [] address = "0xB" -> 1
      [] address = "0xC" -> 2
      [] address = "So1A" -> 2
      [] address = "0xE" -> 26
      [] address = "0xF" -> 255
      [] OTHER -> 0

\* A signature value: who produced it, over which message text, whether its
\* encoding is well formed and how many bytes it decodes to.
SignatureBy(signer, text) ==
    [signer |-> signer, text |-> text, wellFormed |-> TRUE, bytes |-> IF signer = "So1A" THEN 64 ELSE 65]

\* A check that accepts any well-formed signature over the message.
verifyEVMSignatureAnySigner(message, address, signature) ==
    IF ~signature.wellFormed
    THEN [threw |-> TRUE, valid |-> FALSE]
    ELSE [threw |-> FALSE, valid |-> signature.text = message]

\* viem verifyMessage: recovers the signer of the message and compares it to
\* the asserted address; throws on a malformed signature.
verifyEVMSignature(message, address, signature) ==
    IF ~signature.wellFormed
    THEN [threw |-> TRUE, valid |-> FALSE]
    ELSE [threw |-> FALSE, valid |-> signature.signer = address /\ signature.text = message]

\* nacl.sign.detached.verify
verifySolanaSignature(message, signature, publicKey) ==
    signature.signer = publicKey /\ signature.text = message

\* ------------------------------------------------------------ header codec

RequiredFields ==
    {"domain", "address", "uri", "version", "chainId", "type", "nonce", "issuedAt", "signature"}

OptionalFields ==
    {"statement", "expirationTime", "notBefore", "requestId", "resources", "signatureScheme"}

\* A schema that asks for the required fields only and takes any type.
SchemaAcceptsAnyType(raw) ==
    RequiredFields \subseteq DOMAIN raw

\* AgentkitPayloadSchema.safeParse: every required field present, type and
\* signatureScheme within their enums.
SchemaAccepts(raw) ==
    /\ RequiredFields \subseteq DOMAIN raw
    /\ raw.type \in {"eip191", "ed25519"}
    /\ Has(raw, "signatureScheme") => raw.signatureScheme \in {"eip191", "eip1271", "eip6492", "siws"}

\* A header value is given by what its bytes are: whether they match the
\* base64 alphabet, whether they decode to JSON, and the JSON value.
parseAgentkitHeader(header) ==
    IF ~header.base64
    THEN [threw |-> TRUE, error |-> "Invalid agentkit header: not valid base64", data |-> <<>>]
    ELSE IF ~header.json
    THEN [threw |-> TRUE, error |-> "Invalid agentkit header: not valid JSON", data |-> <<>>]
    ELSE IF ~SchemaAccepts(header.value)
    THEN [threw |-> TRUE, error |-> "Invalid agentkit header: schema", data |-> <<>>]
    ELSE [threw |-> FALSE, error |-> Undefined,
          data |-> [f \in DOMAIN header.value \cap (RequiredFields \cup OptionalFields) |-> header.value[f]]]

\* -------------------------------------------------------- message validator

\* checkNonce is "absent" when the store has no hasUsedNonce; otherwise what
\* the call gives: "fresh" (true), "used" (false) or "error" (it rejects).
validateAgentkitMessage(message, expectedResourceUri, maxAge, checkNonce, now) ==
    LET expectedUrl == ParseUrl(expectedResourceUri)
        messageUrl == ParseUrl(message.uri)
        issuedAt == DateGetTime(message.issuedAt)
        age == now - issuedAt.ms
        expiration == DateGetTime(Field(message, "expirationTime"))
        notBefore == DateGetTime(Field(message, "notBefore"))
        Fail(e) == [threw |-> FALSE, valid |-> FALSE, error |-> e]
    IN  IF ~expectedUrl.ok
        THEN [threw |-> TRUE, valid |-> FALSE, error |-> "Invalid URL"]
        ELSE IF message.domain # expectedUrl.hostname
        THEN Fail("Domain mismatch: expected \"" \o expectedUrl.hostname \o "\", got \"" \o message.domain \o "\"")
        ELSE IF ~messageUrl.ok
        THEN Fail("Invalid URI: \"" \o message.uri \o "\"")
        ELSE IF messageUrl.origin # expectedUrl.origin
        THEN Fail("URI mismatch: expected origin \"" \o expectedUrl.origin \o "\", got \"" \o messageUrl.origin \o "\"")
        ELSE IF issuedAt.nan
        THEN Fail("Invalid issuedAt timestamp")
        ELSE IF age > maxAge
        THEN Fail("Message too old")
        ELSE IF age < 0
        THEN Fail("issuedAt is in the future")
        ELSE IF Truthy(message, "expirationTime") /\ expiration.nan
        THEN Fail("Invalid expirationTime timestamp")
        ELSE IF Truthy(message, "expirationTime") /\ expiration.ms < now
        THEN Fail("Message expired")
        ELSE IF Truthy(message, "notBefore") /\ notBefore.nan
        THEN Fail("Invalid notBefore timestamp")
        ELSE IF Truthy(message, "notBefore") /\ now < notBefore.ms
        THEN Fail("Message not yet valid (notBefore is in the future)")
        ELSE IF checkNonce = "error"
        THEN [threw |-> TRUE, valid |-> FALSE, error |-> "storage error"]
        ELSE IF checkNonce = "used"
        THEN Fail("Nonce validation failed (possible replay attack)")
        ELSE [threw |-> FALSE, valid |-> TRUE, error |-> Undefined]

\* Whether validation gets as far as calling checkNonce.
ReachesCheckNonce(message, expectedResourceUri, maxAge, now) ==
    validateAgentkitMessage(message, expectedResourceUri, maxAge, "fresh", now).valid

\* ------------------------------------------------------- signature verifier

verifyEVMPayload(payload) ==
    LET message == formatSIWEMessage(payload, payload.address)
        checked == verifyEVMSignature(message.text, payload.address, payload.signature)
    IN  IF message.threw
        THEN [threw |-> TRUE, valid |-> FALSE, address |-> Undefined,
              error |-> "Invalid EVM chainId format: " \o payload.chainId \o ". Expected eip155:<number>"]
        ELSE IF checked.threw
        THEN [threw |-> FALSE, valid |-> FALSE, address |-> Undefined, error |-> "Signature verification failed"]
        ELSE IF ~checked.valid
        THEN [threw |-> FALSE, valid |-> FALSE, address |-> Undefined, error |-> "Signature verification failed"]
        ELSE [threw |-> FALSE, valid |-> TRUE, address |-> payload.address, error |-> Undefined]

verifySolanaPayload(payload) ==
    LET message == formatSIWSMessage(payload, payload.address)
        Fail(e) == [threw |-> FALSE, valid |-> FALSE, address |-> Undefined, error |-> e]
    IN  IF ~payload.signature.wellFormed \/ DecodedLength(payload.address) = 0
        THEN Fail("Invalid Base58 encoding")
        ELSE IF payload.signature.bytes # 64
        THEN Fail("Invalid signature length: expected 64 bytes, got " \o ToString(payload.signature.bytes))
        ELSE IF DecodedLength(payload.address) # 32
        THEN Fail("Invalid public key length: expected 32 bytes, got " \o ToString(DecodedLength(payload.address)))
        ELSE IF ~verifySolanaSignature(message.text, payload.signature, payload.address)
        THEN Fail("Solana signature verification failed")
        ELSE [threw |-> FALSE, valid |-> TRUE, address |-> payload.address, error |-> Undefined]

\* verifyAgentkitSignature returns the EVM promise without awaiting it, so a
\* throw of formatSIWEMessage rejects the result; the Solana path is
\* synchronous inside the try.
verifyAgentkitSignature(payload) ==
    IF StartsWithEip155(payload.chainId) THEN verifyEVMPayload(payload)
    ELSE IF StartsWithSolana(payload.chainId) THEN verifySolanaPayload(payload)
    ELSE [threw |-> FALSE, valid |-> FALSE, address |-> Undefined,
          error |-> "Unsupported chain namespace: " \o payload.chainId
                    \o ". Supported: eip155:* (EVM), solana:* (Solana)"]

\* ---------------------------------------------------------- AgentBook client

\* No deployment is built in.
KNOWN_DEPLOYMENTS == {}

\* The options the verifier is created with: a contract address override and
\* no custom client.
AgentBookOptions == [client |-> FALSE, contractAddress |-> TRUE, rpcUrl |-> FALSE]

getContractAddress(options, chainId) ==
    IF options.contractAddress THEN [threw |-> FALSE]
    ELSE IF chainId \in KNOWN_DEPLOYMENTS THEN [threw |-> FALSE]
    ELSE [threw |-> TRUE]

getClient(options, chainId) ==
    IF options.client THEN [threw |-> FALSE]
    ELSE [threw |-> extractEVMChainId(chainId).threw]

\* rpcOk: whether the contract read succeeds; a failed read is swallowed.
lookupHuman(options, address, chainId, rpcOk) ==
    IF getContractAddress(options, chainId).threw
    THEN [threw |-> TRUE, humanId |-> Null, error |-> "No AgentBook deployment known for network " \o chainId]
    ELSE IF getClient(options, chainId).threw
    THEN [threw |-> TRUE, humanId |-> Null, error |-> "Unsupported chain format: " \o chainId]
    ELSE IF ~rpcOk THEN [threw |-> FALSE, humanId |-> Null, error |-> Undefined]
    ELSE IF Registry(address) = 0 THEN [threw |-> FALSE, humanId |-> Null, error |-> Undefined]
    ELSE [threw |-> FALSE, humanId |-> ToHex(Registry(address)), error |-> Undefined]

\* ------------------------------------------------------------- usage store

\* InMemoryAgentKitStorage implements both optional nonce methods.
StorageHasNonces == TRUE

\* A key that leaves the human out: `${endpoint}:`
UsageKeyByEndpoint(endpoint, humanId) == endpoint \o ":"

\* `${endpoint}:${humanId}`
UsageKey(endpoint, humanId) == endpoint \o ":" \o humanId

\* this.usage.get(key) ?? 0
getUsageCount(map, endpoint, humanId) ==
    LET key == UsageKey(endpoint, humanId)
    IN  IF key \in DOMAIN map THEN map[key] ELSE 0

\* An increment that is lost: the map is left as it was.
incrementUsageLost(map, endpoint, humanId) == map

\* An increment that ignores the key: every counter on record is raised.
incrementUsageAll(map, endpoint, humanId) ==
    [k \in DOMAIN map \cup {UsageKey(endpoint, humanId)} |->
        IF k \in DOMAIN map THEN map[k] + 1 ELSE 1]

\* An increment that forgets the stored count: this.usage.set(key, 1)
incrementUsageFromZero(map, endpoint, humanId) ==
    [k \in DOMAIN map \cup {UsageKey(endpoint, humanId)} |->
        IF k = UsageKey(endpoint, humanId) THEN 1 ELSE map[k]]

\* this.usage.set(key, (this.usage.get(key) ?? 0) + 1)
incrementUsage(map, endpoint, humanId) ==
    LET key == UsageKey(endpoint, humanId)
    IN  [k \in DOMAIN map \cup {key} |->
            IF k = key THEN getUsageCount(map, endpoint, humanId) + 1 ELSE map[k]]

\* A store that never reports a nonce as used.
hasUsedNonceNever(set, nonce) == FALSE

\* this.nonces.has(nonce)
hasUsedNonce(set, nonce) == nonce \in set

recordNonce(set, nonce) == set \cup {nonce}

\* ------------------------------------------------------------ access modes

\* A mode's optional uses field: hasUses is FALSE when it is omitted.
\* mode.uses ?? 1
FreeTrialUses(m) == IF m.hasUses THEN m.uses ELSE 1

\* A cap test that is off by one: count > (mode.uses ?? Infinity)
DiscountExhaustedLate(m, count) == m.hasUses /\ count > m.uses

\* count >= (mode.uses ?? Infinity)
DiscountExhausted(m, count) == m.hasUses /\ count >= m.uses

\* The modes a server may be constructed with.
Modes ==
    { [type |-> "free", hasUses |-> FALSE, uses |-> 0, percent |-> 0],
      [type |-> "free-trial", hasUses |-> FALSE, uses |-> 0, percent |-> 0],
      [type |-> "free-trial", hasUses |-> TRUE, uses |-> 2, percent |-> 0],
      [type |-> "discount", hasUses |-> TRUE, uses |-> 1, percent |-> 50],
      [type |-> "discount", hasUses |-> FALSE, uses |-> 0, percent |-> 50] }

\* ------------------------------------------------------- request contexts

IssuedAtZero == "1970-01-01T00:00:00.000Z"

Unsigned(address, nonce, chainId, type, domain, uri) ==
    [domain |-> domain, address |-> address, uri |-> uri, version |-> "1",
     chainId |-> chainId, type |-> type, nonce |-> nonce, issuedAt |-> IssuedAtZero]

\* The payload a wallet produces by signing the challenge with the key of `signer`.
Signed(info, signer) ==
    LET text == IF StartsWithSolana(info.chainId)
                THEN formatSIWSMessage(info, info.address).text
                ELSE formatSIWEMessage(info, info.address).text
    IN  info @@ [signature |-> SignatureBy(signer, text)]

Encoded(payload) == [base64 |-> TRUE, json |-> TRUE, value |-> payload]

EvmPayload(address, nonce, uri) ==
    Signed(Unsigned(address, nonce, "eip155:8453", "eip191", "api.x", uri), address)

Request(name, header, path, url) ==
    [headers |-> (name :> header), caseSensitive |-> TRUE, path |-> path, url |-> url]

DataUrl == "https://api.x/data"
OtherUrl == "https://api.x/other"

\* The requests clients send: correctly signed payloads of four wallets on
\* two endpoints under three nonces, and the ways a request can be wrong.
RequestContexts ==
    { Request("agentkit", Encoded(EvmPayload("0xA", "n1", DataUrl)), "/data", DataUrl),
      Request("agentkit", Encoded(EvmPayload("0xB", "n2", DataUrl)), "/data", DataUrl),
      Request("agentkit", Encoded(EvmPayload("0xB", "n3", DataUrl)), "/data", DataUrl),
      Request("agentkit", Encoded(EvmPayload("0xC", "n1", DataUrl)), "/data", DataUrl),
      Request("agentkit", Encoded(EvmPayload("0xA", "n2", OtherUrl)), "/other", OtherUrl),
      Request("agentkit", Encoded(EvmPayload("0xD", "n3", DataUrl)), "/data", DataUrl),
      \* no agentkit header
      [headers |-> <<>>, caseSensitive |-> TRUE, path |-> "/data", url |-> DataUrl],
      \* not base64
      Request("agentkit", [base64 |-> FALSE, json |-> FALSE, value |-> <<>>], "/data", DataUrl),
      \* signed by another wallet's key
      Request("agentkit",
              Encoded(Signed(Unsigned("0xA", "n1", "eip155:8453", "eip191", "api.x", DataUrl), "0xD")),
              "/data", DataUrl),
      \* a signature that is not well formed
      Request("agentkit",
              Encoded([EvmPayload("0xA", "n1", DataUrl) EXCEPT !.signature.wellFormed = FALSE]),
              "/data", DataUrl),
      \* signed for another server
      Request("agentkit",
              Encoded(Signed(Unsigned("0xA", "n1", "eip155:8453", "eip191", "evil.x", "https://evil.x/data"), "0xA")),
              "/data", DataUrl),
      \* a Solana wallet
      Request("agentkit",
              Encoded(Signed(Unsigned("So1A", "n2", "solana:5eykt4UsFv8P8NJdTREpY1vzqKqZKvdp", "ed25519", "api.x", DataUrl), "So1A")),
              "/data", DataUrl) }

\* adapter.getHeader(name)
getHeader(context, name) ==
    IF name \in DOMAIN context.headers
    THEN [present |-> TRUE, value |-> context.headers[name]]
    ELSE IF ~context.caseSensitive /\ \E n \in DOMAIN context.headers : ToLowerCase(n) = ToLowerCase(name)
    THEN [present |-> TRUE,
          value |-> context.headers[CHOOSE n \in DOMAIN context.headers : ToLowerCase(n) = ToLowerCase(name)]]
    ELSE [present |-> FALSE, value |-> <<>>]

\* A lookup whose result is used without the test for its absence: decoding
\* undefined throws.
RequestHeaderUnchecked(context) ==
    IF getHeader(context, AGENTKIT).present
    THEN getHeader(context, AGENTKIT)
    ELSE [present |-> TRUE, value |-> [base64 |-> FALSE, json |-> FALSE, value |-> <<>>]]

\* getHeader(AGENTKIT) || getHeader(AGENTKIT.toLowerCase())
RequestHeader(context) ==
    IF getHeader(context, AGENTKIT).present
    THEN getHeader(context, AGENTKIT)
    ELSE getHeader(context, ToLowerCase(AGENTKIT))

\* ------------------------------------------------------ AgentBook contract

AddressZero == "0x0"

\* The accounts that call the contract (0xT deploys it), the agents that are
\* registered, and the values calls are made with.
BookInputs ==
    [callers |-> {"0xT", "0x1", "0x2"},
     agents |-> {"0x1", "0x2"},
     routers |-> {AddressZero, "worldId", "0x6"},
     groupIds |-> {1, 2},
     nonces |-> {0, 1, 2},
     nullifierHashes |-> {0, 4660, 22136}]

\* Before deployment: every storage slot is zero. registrations counts the
\* successful registrations of each agent.
NoBook ==
    [deployed |-> FALSE, owner |-> AddressZero, pendingOwner |-> AddressZero,
     worldIdRouter |-> AddressZero, groupId |-> 0,
     lookupHuman |-> [a \in BookInputs.agents |-> 0],
     registrations |-> [a \in BookInputs.agents |-> 0]]

\* A revert that leaves the writes made before it in place.
RevertKeepsWrites(before, written) == written

\* A revert undoes every write of the call.
Revert(before, written) == before

\* -------------------------------------------------------------------- state

VARIABLES
    mode,              \* the access mode the hooks were created with
    usage,             \* InMemoryAgentKitStorage.usage: key -> count
    nonces,            \* InMemoryAgentKitStorage.nonces
    pendingDiscounts,  \* key -> [humanId, address, createdAt]
    now,               \* Date.now()
    inv,               \* the hook invocations in flight, one per slot
    calls,             \* hook invocations started so far
    grants,            \* <<path, human>> -> grantAccess results returned
    recoveries,        \* <<path, human>> -> recovered results returned
    book               \* the AgentBook contract's storage

vars == <<mode, usage, nonces, pendingDiscounts, now, inv, calls, grants, recoveries, book>>

Procs == 1..MaxInFlight

Paths == {"/data", "/other"}

\* The contract's identifiers: 0 is "not registered".
Humans == 0..2

Idle == [kind |-> "idle", pc |-> "idle", result |-> Undefined, events |-> <<>>]

\* The empty Map.
EmptyMap == [k \in {} |-> 0]

Init ==
    /\ mode \in Modes
    /\ usage = EmptyMap
    /\ nonces = {}
    /\ pendingDiscounts = EmptyMap
    /\ now = 0
    /\ inv = [p \in Procs |-> Idle]
    /\ calls = 0
    /\ grants = [k \in Paths \X Humans |-> 0]
    /\ recoveries = [k \in Paths \X Humans |-> 0]
    /\ book = NoBook

\* A settled invocation hands its result to its caller before anything else
\* runs: the settled slot is shared with no other invocation.
NoneSettled == \A q \in Procs : inv[q].pc # "done"

\* A new invocation takes the lowest free slot.
CanStart(p) ==
    /\ NoneSettled
    /\ inv[p].kind = "idle"
    /\ \A q \in Procs : q < p => inv[q].kind # "idle"
    /\ calls < MaxCalls

\* ------------------------------------------------------------- request hook

ValidationFailed(resource, error) ==
    [type |-> "validation_failed", resource |-> resource, error |-> error]

AgentEvent(type, resource, address, humanId) ==
    [type |-> type, resource |-> resource, address |-> address, humanId |-> humanId]

\* No awaited value.
Nothing == [threw |-> FALSE]

\* An invocation of the request hook: its context, the parsed payload, the
\* value of the promise it awaits, the steps it has passed, the kind of error
\* raised in it ("none" when there was none), and whether its nonce was
\* already recorded when it was called.
NewRequest(ctx) ==
    [kind |-> "request", pc |-> "done", result |-> "none", events |-> <<>>, ctx |-> ctx,
     payload |-> <<>>, replay |-> FALSE, awaited |-> Nothing, trace |-> <<>>,
     address |-> Undefined, humanId |-> Null, count |-> 0, raised |-> "none"]

\* The hook's promise resolves with `result` after emitting `emitted`; s is
\* the invocation as it stands.
RequestDone(p, s, result, emitted) ==
    /\ inv' = [inv EXCEPT ![p] = [s EXCEPT !.pc = "done", !.result = result, !.awaited = Nothing,
                                           !.events = s.events \o emitted]]
    /\ grants' = IF result = "grantAccess"
                 THEN [grants EXCEPT ![<<s.ctx.path, Registry(s.payload.address)>>] = @ + 1]
                 ELSE grants

\* A catch block that rethrows: the hook's promise rejects.
RequestCatchRethrow(p, s, error) ==
    RequestDone(p, s, "rejected", <<>>)

\* A catch block that swallows the error without reporting it.
RequestCatchSilent(p, s, error) ==
    RequestDone(p, s, "none", <<>>)

\* The catch block of the request hook.
RequestCatch(p, s, error) ==
    RequestDone(p, s, "none", <<ValidationFailed(s.ctx.path, error)>>)

\* Whether the signature check itself raised an error (caught inside
\* verifyEVMPayload or verifySolanaPayload, or rejecting the promise).
VerifierRaised(payload) ==
    \/ StartsWithEip155(payload.chainId)
        /\ \/ formatSIWEMessage(payload, payload.address).threw
           \/ ~payload.signature.wellFormed
    \/ StartsWithSolana(payload.chainId)
        /\ (~payload.signature.wellFormed \/ DecodedLength(payload.address) = 0)

\* What checkNonce gives when validation calls it: the store is read at the call.
CheckNonceOutcome(storageOk, nonce) ==
    IF ~StorageHasNonces THEN "absent"
    ELSE IF ~storageOk THEN "error"
    ELSE IF hasUsedNonce(nonces, nonce) THEN "used"
    ELSE "fresh"

PendingKey(path, address) == path \o ":" \o address

\* The sweep before an insert: entries older than PENDING_TTL_MS are deleted.
SweepPending(map, time) ==
    [k \in {j \in DOMAIN map : ~(time - map[j].createdAt > PENDING_TTL_MS)} |-> map[k]]

\* pendingDiscounts.set(key, entry)
MapSet(map, key, entry) ==
    [k \in DOMAIN map \cup {key} |-> IF k = key THEN entry ELSE map[k]]

\* A delete that removes nothing: the record stays after it is read.
MapDeleteNothing(map, key) == map

\* pendingDiscounts.delete(key)
MapDelete(map, key) ==
    [k \in DOMAIN map \ {key} |-> map[k]]

\* No test at all: a null identifier goes on to the policy step.
NotRegisteredNever(humanId) == FALSE

\* A test that misses null: if (humanId === '')
NotRegisteredEmptyOnly(humanId) == humanId = ""

\* if (!humanId)
NotRegistered(humanId) == humanId = Null \/ humanId = ""

\* A cap test that is off by one: if (count <= uses)
BelowFreeTrialCapInclusive(count, uses) == count <= uses

\* if (count < uses)
BelowFreeTrialCap(count, uses) == count < uses

\* An await whose promise reads or writes no shared state is taken together
\* with the step before it; every await of a store or contract call is a
\* point where other invocations run.

\* From the call of the hook to the await of verifyAgentkitSignature:
\* header lookup, parse, validation (checkNonce reads the nonce set here).
RequestStart(p, ctx) ==
    LET header == RequestHeader(ctx)
        parsed == parseAgentkitHeader(header.value)
    IN  /\ calls' = calls + 1
        /\ UNCHANGED <<book, mode, usage, nonces, pendingDiscounts, now, recoveries>>
        /\ IF ~header.present
           THEN RequestDone(p, NewRequest(ctx), "none", <<>>)
           ELSE IF parsed.threw
           THEN RequestCatch(p, [NewRequest(ctx) EXCEPT !.raised = "parse"], parsed.error)
           ELSE \E storageOk \in BOOLEAN :
                LET validation == validateAgentkitMessage(parsed.data, ctx.url, DEFAULT_MAX_AGE_MS,
                                        CheckNonceOutcome(storageOk, parsed.data.nonce), now)
                    s == [NewRequest(ctx) EXCEPT !.payload = parsed.data,
                                                 !.trace = <<"parse">>,
                                                 !.replay = parsed.data.nonce \in nonces]
                IN  /\ storageOk \/ ReachesCheckNonce(parsed.data, ctx.url, DEFAULT_MAX_AGE_MS, now)
                    /\ IF validation.threw
                       THEN RequestCatch(p, [s EXCEPT !.raised = IF storageOk THEN "url" ELSE "storage"],
                                         validation.error)
                       ELSE IF ~validation.valid
                       THEN RequestDone(p, s, "none", <<ValidationFailed(ctx.path, validation.error)>>)
                       ELSE /\ inv' = [inv EXCEPT ![p] = [s EXCEPT
                                        !.pc = "verify",
                                        !.result = Undefined,
                                        !.trace = <<"parse", "validate">>,
                                        !.awaited = verifyAgentkitSignature(parsed.data)]]
                            /\ UNCHANGED grants

\* verifyAgentkitSignature settles; the hook records the nonce and calls
\* agentBook.lookupHuman.
RequestAfterVerify(p) ==
    LET s == inv[p]
        verification == s.awaited
        t == [s EXCEPT !.trace = Append(s.trace, "verify"), !.address = verification.address]
    IN  /\ s.kind = "request" /\ s.pc = "verify"
        /\ UNCHANGED <<book, mode, usage, pendingDiscounts, now, calls, recoveries>>
        /\ IF verification.threw
           THEN /\ RequestCatch(p, [s EXCEPT !.raised = "verifier"], verification.error)
                /\ UNCHANGED nonces
           ELSE IF ~verification.valid \/ verification.address = Undefined
           THEN /\ RequestDone(p, [s EXCEPT !.raised = IF VerifierRaised(s.payload) THEN "verifier" ELSE "none"],
                               "none", <<ValidationFailed(s.ctx.path, verification.error)>>)
                /\ UNCHANGED nonces
           ELSE IF StorageHasNonces
           THEN \E storageOk \in BOOLEAN :
                IF storageOk
                THEN /\ nonces' = recordNonce(nonces, s.payload.nonce)
                     /\ inv' = [inv EXCEPT ![p] = [t EXCEPT !.pc = "lookup", !.awaited = Nothing,
                                                            !.trace = Append(t.trace, "record")]]
                     /\ UNCHANGED grants
                ELSE RequestCatch(p, [t EXCEPT !.raised = "storage"], "storage error") /\ UNCHANGED nonces
           ELSE /\ inv' = [inv EXCEPT ![p] = [t EXCEPT !.pc = "lookup", !.awaited = Nothing]]
                /\ UNCHANGED <<nonces, grants>>

\* The contract read settles; the hook applies the mode.
RequestAfterLookup(p) ==
    LET s == inv[p]
    IN  /\ s.kind = "request" /\ s.pc = "lookup"
        /\ UNCHANGED <<book, mode, usage, nonces, now, calls, recoveries>>
        /\ \E rpcOk \in BOOLEAN :
            LET found == lookupHuman(AgentBookOptions, s.address, s.payload.chainId, rpcOk)
                humanId == found.humanId
                t == [s EXCEPT !.trace = Append(s.trace, "lookup"), !.humanId = humanId,
                               !.raised = IF ~rpcOk THEN "rpc" ELSE "none"]
            IN  IF found.threw
                THEN RequestCatch(p, [s EXCEPT !.raised = "agentbook"], found.error) /\ UNCHANGED pendingDiscounts
                ELSE IF NotRegistered(humanId)
                THEN /\ RequestDone(p, t, "none",
                            <<[type |-> "agent_not_verified", resource |-> s.ctx.path, address |-> s.address]>>)
                     /\ UNCHANGED pendingDiscounts
                ELSE IF mode.type = "free"
                THEN /\ RequestDone(p, t, "grantAccess",
                            <<AgentEvent("agent_verified", s.ctx.path, s.address, humanId)>>)
                     /\ UNCHANGED pendingDiscounts
                ELSE IF mode.type = "free-trial"
                THEN /\ UNCHANGED pendingDiscounts
                     /\ \E storageOk \in BOOLEAN :
                        IF storageOk
                        THEN /\ inv' = [inv EXCEPT ![p] = [t EXCEPT !.pc = "count",
                                    !.awaited = [threw |-> FALSE,
                                                 value |-> getUsageCount(usage, s.ctx.path, humanId)]]]
                             /\ UNCHANGED grants
                        ELSE RequestCatch(p, [t EXCEPT !.raised = "storage"], "storage error")
                ELSE /\ pendingDiscounts' =
                            MapSet(SweepPending(pendingDiscounts, now),
                                   PendingKey(s.ctx.path, s.address),
                                   [humanId |-> humanId, address |-> s.address, createdAt |-> now])
                     /\ RequestDone(p, [t EXCEPT !.trace = Append(t.trace, "pending")], "none", <<>>)

\* getUsageCount settles; below the cap the hook increments and grants.
RequestAfterCount(p) ==
    LET s == inv[p]
        count == s.awaited.value
        uses == FreeTrialUses(mode)
        t == [s EXCEPT !.count = count, !.trace = Append(s.trace, "count")]
    IN  /\ s.kind = "request" /\ s.pc = "count"
        /\ UNCHANGED <<book, mode, nonces, pendingDiscounts, now, calls, recoveries>>
        /\ IF BelowFreeTrialCap(count, uses)
           THEN \E storageOk \in BOOLEAN :
                IF storageOk
                THEN /\ usage' = incrementUsage(usage, s.ctx.path, s.humanId)
                     /\ RequestDone(p, [t EXCEPT !.trace = Append(t.trace, "increment")], "grantAccess",
                            <<AgentEvent("agent_verified", s.ctx.path, s.address, s.humanId)>>)
                ELSE RequestCatch(p, [t EXCEPT !.raised = "storage"], "storage error") /\ UNCHANGED usage
           ELSE RequestDone(p, t, "none", <<>>) /\ UNCHANGED usage

\* The caller takes the settled result; the slot is free again.
Release(p) ==
    /\ inv[p].pc = "done"
    /\ inv' = [inv EXCEPT ![p] = Idle]
    /\ UNCHANGED <<book, mode, usage, nonces, pendingDiscounts, now, calls, grants, recoveries>>

\* Time passes.
Tick ==
    /\ NoneSettled
    /\ now < MaxTicks * TickMs
    /\ now' = now + TickMs
    /\ UNCHANGED <<book, mode, usage, nonces, pendingDiscounts, inv, calls, grants, recoveries>>

\* ------------------------------------------------------ verify-failure hook

Authorization(from, value) == [authorization |-> [from |-> from, value |-> value]]

Permit2(from, amount) ==
    [permit2Authorization |-> [from |-> from, permitted |-> [amount |-> amount]]]

\* An error message is written as its pieces, each ":" a piece of its own.
Underpaid == <<"invalid_exact_evm_payload_authorization_value", ":", " value too low">>

FailureContext(url, payload, amount, message) ==
    [paymentPayload |-> [resource |-> [url |-> url], payload |-> payload],
     requirements |-> [amount |-> amount],
     error |-> [message |-> message]]

\* What a facilitator reports: underpayments by registered wallets, and the
\* ways a report can be unusable.
FailureContexts ==
    { FailureContext(DataUrl, Authorization("0xA", "500"), "1000", Underpaid),
      FailureContext(DataUrl, Permit2("0xB", "0500"), "1000", <<"permit2_insufficient_amount">>),
      FailureContext(DataUrl, Authorization("0xC", "999"), "1000", <<"insufficient_funds", ":", "x", ":", "y">>),
      FailureContext(OtherUrl, Authorization("0xA", "500"), "1000", Underpaid),
      FailureContext(DataUrl, Authorization("0xA", "499"), "1000", Underpaid),
      FailureContext(DataUrl, Authorization("0xA", "1000"), "1000", Underpaid),
      FailureContext(DataUrl, Authorization("0xA", "abc"), "1000", Underpaid),
      FailureContext(DataUrl, Authorization("0xA", "500"), "1000.5", Underpaid),
      FailureContext(DataUrl, Authorization("0xA", "500"), "1000", <<"invalid_signature", ":", " bad">>),
      FailureContext("/data", Authorization("0xA", "500"), "1000", Underpaid),
      FailureContext(DataUrl, [other |-> "x"], "1000", Underpaid) }

extractPayer(payload) ==
    IF Has(payload, "authorization") THEN payload.authorization.from
    ELSE IF Has(payload, "permit2Authorization") THEN payload.permit2Authorization.from
    ELSE Null

extractPaidAmount(payload) ==
    LET value == IF Has(payload, "authorization")
                 THEN BigIntOf(payload.authorization.value)
                 ELSE BigIntOf(payload.permit2Authorization.permitted.amount)
    IN  IF ~Has(payload, "authorization") /\ ~Has(payload, "permit2Authorization")
        THEN [null |-> TRUE, n |-> 0]
        ELSE IF value.threw THEN [null |-> TRUE, n |-> 0]
        ELSE [null |-> FALSE, n |-> value.n]

\* A test that takes every error for an underpayment.
isUnderpaymentErrorAny(error) == TRUE

\* message.split(':')[0]
RECURSIVE SplitFirst(_)
SplitFirst(message) ==
    IF message = <<>> \/ Head(message) = ":" THEN ""
    ELSE Head(message) \o SplitFirst(Tail(message))

isUnderpaymentError(error) == SplitFirst(error.message) \in UNDERPAYMENT_REASONS

\* A discounted amount rounded up instead of down.
DiscountedAmountRoundedUp(requiredAmount, percent) ==
    BigIntDiv(requiredAmount * (100 - percent) + 99, 100)

\* (requiredAmount * BigInt(100 - mode.percent)) / 100n
DiscountedAmount(requiredAmount, percent) ==
    BigIntDiv(requiredAmount * (100 - percent), 100)

\* An invocation of the verify-failure hook: its context (whose requirements
\* it may mutate), the pending record it took and the promise it awaits.
NewFailure(ctx) ==
    [kind |-> "verifyFailure", pc |-> "done", result |-> "none", events |-> <<>>, ctx |-> ctx,
     awaited |-> Nothing, trace |-> <<>>, resourcePath |-> Undefined,
     pending |-> <<>>, amount |-> ctx.requirements.amount, value |-> <<>>,
     count |-> 0, raised |-> "none"]

\* The hook's promise settles: "none", "recovered" or "rejected" (it threw).
FailureDone(p, s, result, emitted) ==
    /\ inv' = [inv EXCEPT ![p] = [s EXCEPT !.pc = "done", !.result = result, !.awaited = Nothing,
                                           !.events = s.events \o emitted]]
    /\ recoveries' = IF result = "recovered"
                     THEN [recoveries EXCEPT ![<<s.resourcePath, Registry(s.pending.address)>>] = @ + 1]
                     ELSE recoveries

\* Whether BigInt threw inside extractPaidAmount (caught there).
PaidAmountRaised(payload) ==
    \/ Has(payload, "authorization") /\ BigIntOf(payload.authorization.value).threw
    \/ ~Has(payload, "authorization") /\ Has(payload, "permit2Authorization")
        /\ BigIntOf(payload.permit2Authorization.permitted.amount).threw

\* A test without the upper limit: a payment of the full price passes it.
WithinDiscountNoUpper(paidAmount, discountedAmount, requiredAmount) ==
    /\ ~paidAmount.null
    /\ ~(paidAmount.n < discountedAmount)

\* if (paidAmount === null || paidAmount < discountedAmount) return
\* if (paidAmount >= requiredAmount) return
WithinDiscount(paidAmount, discountedAmount, requiredAmount) ==
    /\ ~paidAmount.null
    /\ ~(paidAmount.n < discountedAmount)
    /\ ~(paidAmount.n >= requiredAmount)

\* From the call of the hook to its first await (of getUsageCount): the
\* pending record is looked up and deleted here.
VerifyFailureStart(p, ctx) ==
    LET url == ParseUrl(ctx.paymentPayload.resource.url)
        resourcePath == url.pathname
        payer == extractPayer(ctx.paymentPayload.payload)
        hasKey == payer # Null /\ payer # Undefined /\ payer # ""
        discountKey == PendingKey(resourcePath, payer)
        found == hasKey /\ discountKey \in DOMAIN pendingDiscounts
        s == [NewFailure(ctx) EXCEPT !.resourcePath = resourcePath]
    IN  /\ mode.type = "discount"
        /\ calls' = calls + 1
        /\ UNCHANGED <<book, mode, usage, nonces, now, grants>>
        /\ IF ~url.ok
           THEN FailureDone(p, [s EXCEPT !.raised = "url"], "rejected", <<>>) /\ UNCHANGED pendingDiscounts
           ELSE /\ pendingDiscounts' = IF hasKey THEN MapDelete(pendingDiscounts, discountKey)
                                       ELSE pendingDiscounts
                /\ IF ~found THEN FailureDone(p, s, "none", <<>>)
                   ELSE IF ~isUnderpaymentError(ctx.error)
                   THEN FailureDone(p, [s EXCEPT !.pending = pendingDiscounts[discountKey]], "none", <<>>)
                   ELSE \E storageOk \in BOOLEAN :
                        LET pending == pendingDiscounts[discountKey]
                            t == [s EXCEPT !.pending = pending, !.trace = <<"pending">>]
                        IN  IF storageOk
                            THEN /\ inv' = [inv EXCEPT ![p] = [t EXCEPT
                                        !.pc = "count",
                                        !.result = Undefined,
                                        !.awaited = [threw |-> FALSE,
                                                     value |-> getUsageCount(usage, resourcePath, pending.humanId)]]]
                                 /\ UNCHANGED recoveries
                            ELSE FailureDone(p, [t EXCEPT !.raised = "storage"], "rejected", <<>>)

\* getUsageCount settles; an underpayment within the discount is counted,
\* the requirements are adjusted and the payment is recovered.
VerifyFailureAfterCount(p) ==
    LET s == inv[p]
        count == s.awaited.value
        required == BigIntOf(s.amount)
        requiredAmount == required.n
        discountedAmount == DiscountedAmount(requiredAmount, mode.percent)
        paidAmount == extractPaidAmount(s.ctx.paymentPayload.payload)
        t == [s EXCEPT !.trace = Append(s.trace, "count"), !.count = count]
    IN  /\ s.kind = "verifyFailure" /\ s.pc = "count"
        /\ UNCHANGED <<book, mode, nonces, pendingDiscounts, now, calls, grants>>
        /\ IF DiscountExhausted(mode, count)
           THEN /\ FailureDone(p, t, "none",
                        <<AgentEvent("discount_exhausted", s.resourcePath, s.pending.address, s.pending.humanId)>>)
                /\ UNCHANGED usage
           ELSE IF required.threw
           THEN FailureDone(p, [t EXCEPT !.raised = "amount"], "rejected", <<>>) /\ UNCHANGED usage
           ELSE IF ~WithinDiscount(paidAmount, discountedAmount, requiredAmount)
           THEN /\ FailureDone(p, [t EXCEPT !.raised = IF PaidAmountRaised(s.ctx.paymentPayload.payload)
                                                         THEN "paid" ELSE "none"], "none", <<>>)
                /\ UNCHANGED usage
           ELSE \E storageOk \in BOOLEAN :
                IF storageOk
                THEN /\ usage' = incrementUsage(usage, s.resourcePath, s.pending.humanId)
                     /\ FailureDone(p,
                            [t EXCEPT !.trace = Append(t.trace, "increment"),
                                      !.amount = StringOfBigInt(paidAmount.n),
                                      !.value = [isValid |-> TRUE, payer |-> s.pending.address]],
                            "recovered",
                            <<AgentEvent("discount_applied", s.resourcePath, s.pending.address, s.pending.humanId)>>)
                ELSE FailureDone(p, [t EXCEPT !.raised = "storage"], "rejected", <<>>) /\ UNCHANGED usage

\* ------------------------------------------------------------ specification

Next ==
    \/ \E p \in Procs : \E ctx \in RequestContexts : CanStart(p) /\ RequestStart(p, ctx)
    \/ \E p \in Procs : NoneSettled /\ RequestAfterVerify(p)
    \/ \E p \in Procs : NoneSettled /\ RequestAfterLookup(p)
    \/ \E p \in Procs : NoneSettled /\ RequestAfterCount(p)
    \/ \E p \in Procs : \E ctx \in FailureContexts : CanStart(p) /\ VerifyFailureStart(p, ctx)
    \/ \E p \in Procs : NoneSettled /\ VerifyFailureAfterCount(p)
    \/ \E p \in Procs : Release(p)
    \/ Tick

Spec == Init /\ [][Next]_vars


\* Requests and facilitator reports of the discount flow over a wider range
\* of percentages and amounts.
Percents == {1, 33, 50, 100}

DiscountModes ==
    { [type |-> "discount", hasUses |-> h, uses |-> 1, percent |-> pct] :
        h \in BOOLEAN, pct \in Percents }

RequiredStrings == {"1000", "3", "1", "0", "-3", ""}

PaidStrings ==
    {"1001", "1000", "999", "500", "499", "3", "2", "1", "0", "-1", "-2", "-3", "0500", "0x3", ""}

DiscountRequests ==
    { Request("agentkit", Encoded(EvmPayload("0xA", "n1", DataUrl)), "/data", DataUrl),
      Request("agentkit", Encoded(EvmPayload("0xB", "n2", DataUrl)), "/data", DataUrl) }

DiscountFailures ==
    { FailureContext(DataUrl, Authorization("0xA", paid), required, Underpaid) :
        paid \in PaidStrings, required \in RequiredStrings }
    \cup
    { FailureContext(DataUrl, Permit2("0xB", paid), "1000", <<"permit2_insufficient_amount">>) :
        paid \in PaidStrings }

InitDiscount ==
    /\ mode \in DiscountModes
    /\ usage = EmptyMap
    /\ nonces = {}
    /\ pendingDiscounts = EmptyMap
    /\ now = 0
    /\ inv = [p \in Procs |-> Idle]
    /\ calls = 0
    /\ grants = [k \in Paths \X Humans |-> 0]
    /\ recoveries = [k \in Paths \X Humans |-> 0]
    /\ book = NoBook

NextDiscount ==
    \/ \E p \in Procs : \E ctx \in DiscountRequests : CanStart(p) /\ RequestStart(p, ctx)
    \/ \E p \in Procs : NoneSettled /\ RequestAfterVerify(p)
    \/ \E p \in Procs : NoneSettled /\ RequestAfterLookup(p)
    \/ \E p \in Procs : \E ctx \in DiscountFailures : CanStart(p) /\ VerifyFailureStart(p, ctx)
    \/ \E p \in Procs : NoneSettled /\ VerifyFailureAfterCount(p)
    \/ \E p \in Procs : Release(p)

SpecDiscount == InitDiscount /\ [][NextDiscount]_vars

\* Invocations run one at a time: a hook is called only when no other is in
\* flight.
AllIdle == \A q \in Procs : inv[q].kind = "idle"

NextSeq ==
    \/ \E p \in Procs : \E ctx \in RequestContexts : AllIdle /\ CanStart(p) /\ RequestStart(p, ctx)
    \/ \E p \in Procs : NoneSettled /\ RequestAfterVerify(p)
    \/ \E p \in Procs : NoneSettled /\ RequestAfterLookup(p)
    \/ \E p \in Procs : NoneSettled /\ RequestAfterCount(p)
    \/ \E p \in Procs : \E ctx \in FailureContexts : AllIdle /\ CanStart(p) /\ VerifyFailureStart(p, ctx)
    \/ \E p \in Procs : NoneSettled /\ VerifyFailureAfterCount(p)
    \/ \E p \in Procs : Release(p)
    \/ Tick

SpecSeq == Init /\ [][NextSeq]_vars

\* ------------------------------------------------------------------- claims

\* The steps an invocation has passed.
Passed(s, step) == \E i \in DOMAIN s.trace : s.trace[i] = step

\* A settled invocation of the request hook / of the verify-failure hook.
SettledRequest(s) == s.kind = "request" /\ s.pc = "done"

SettledFailure(s) == s.kind = "verifyFailure" /\ s.pc = "done"

\* The (path, human) a settled request was for.
GrantKey(s) == <<s.ctx.path, Registry(s.payload.address)>>

\* The name of the counter of a registered human on an endpoint.
CounterName(path, h) == path \o ":0x" \o ToString(h)


\* C1: in free-trial mode with cap N (default 1), when invocations run one
\* at a time, the request hook returns grantAccess at most N times for every
\* (endpoint path, human); a verified request of a registered wallet that
\* ends without error is refused only when N grants were already given, and
\* granted otherwise, whichever wallet of the human signed it.
C1_FreeTrialCapSequential ==
    mode.type = "free-trial" =>
        /\ \A k \in Paths \X Humans : grants[k] <= FreeTrialUses(mode)
        /\ \A p \in Procs :
            LET s == inv[p]
            IN  (SettledRequest(s) /\ Passed(s, "lookup") /\ s.humanId # Null /\ s.raised = "none") =>
                    /\ s.result = "none" => (grants[GrantKey(s)] = FreeTrialUses(mode) /\ s.events = <<>>)
                    /\ s.result # "none" => (s.result = "grantAccess" /\ s.count < FreeTrialUses(mode))

\* C1 witness: with cap 2, after two grants to human 1 on /data a third
\* verified request, signed by wallet 0xB, was refused.
C1_Witness ==
    /\ mode.type = "free-trial" /\ mode.hasUses
    /\ grants[<<"/data", 1>>] = 2
    /\ \E p \in Procs :
        /\ SettledRequest(inv[p]) /\ Passed(inv[p], "count")
        /\ inv[p].address = "0xB" /\ inv[p].count = 2 /\ inv[p].result = "none"

\* C2: under any interleaving of concurrent request hooks, the number of
\* grantAccess results per (endpoint path, human) in free-trial mode never
\* exceeds the cap N.
C2_FreeTrialCapConcurrent ==
    \A path \in Paths : \A h \in Humans :
        mode.type = "free-trial" => grants[<<path, h>>] <= FreeTrialUses(mode)

\* C3: the usage counters are exactly one per (endpoint path, human) that
\* was granted or recovered, each equal to the number of grants and
\* recoveries for that path and human by whichever wallet; so two wallets of
\* one human share a counter, and no grant or recovery changes the counter
\* of another endpoint or another human. In free mode no counter exists.
C3_CountersPerEndpointAndHuman ==
    LET total(path, h) == IF mode.type = "free" THEN 0
                          ELSE grants[<<path, h>>] + recoveries[<<path, h>>]
        counted == {k \in Paths \X (Humans \ {0}) : total(k[1], k[2]) > 0}
    IN  /\ DOMAIN usage = {CounterName(k[1], k[2]) : k \in counted}
        /\ \A k \in counted : usage[CounterName(k[1], k[2])] = total(k[1], k[2])
        /\ \A path \in Paths : grants[<<path, 0>>] = 0 /\ recoveries[<<path, 0>>] = 0

\* C3 witness: wallet 0xB of human 1 read the count 1 left by the grant to
\* wallet 0xA of the same human, and its own grant made the one counter 2.
C3_Witness ==
    /\ mode.type = "free-trial" /\ "n3" \notin nonces
    /\ usage = ("/data:0x1" :> 2)
    /\ \E p \in Procs :
        /\ SettledRequest(inv[p]) /\ inv[p].result = "grantAccess"
        /\ inv[p].address = "0xB" /\ inv[p].count = 1

\* C4: with a store that has hasUsedNonce and recordNonce, a request-hook
\* invocation called with a nonce that is already recorded settles with no
\* decision and one validation_failed event, and changes no usage counter
\* and no pending-discount record.
C4_ReplayedNonceRejected ==
    [][\A p \in Procs :
        (inv[p].kind = "idle" /\ inv'[p].kind = "request" /\ inv'[p].replay) =>
            /\ inv'[p].pc = "done" /\ inv'[p].result = "none"
            /\ Len(inv'[p].events) = 1 /\ inv'[p].events[1].type = "validation_failed"
            /\ usage' = usage /\ pendingDiscounts' = pendingDiscounts /\ grants' = grants]_vars

\* C4 witness: a correctly signed request for this server whose nonce was
\* recorded by an earlier request was refused as a replay.
C4_Witness ==
    \E p \in Procs :
        /\ SettledRequest(inv[p]) /\ inv[p].replay
        /\ inv[p].payload.signature.signer = inv[p].payload.address
        /\ inv[p].events =
            <<ValidationFailed(inv[p].ctx.path, "Nonce validation failed (possible replay attack)")>>

\* C5: of two request hooks running concurrently with the same correctly
\* signed payload, at most one gets past nonce recording.
C5_OneReplayPastRecording ==
    \A p \in Procs : \A q \in Procs :
        (p # q /\ inv[p].kind = "request" /\ inv[q].kind = "request"
              /\ inv[p].ctx = inv[q].ctx /\ Passed(inv[p], "record"))
            => ~Passed(inv[q], "record")


\* C6: the request hook returns grantAccess only when the agentkit header
\* was present and parsed, the message validated, the signature verified and
\* the AgentBook lookup gave a non-null human; never in discount mode.
C6_GrantOnlyWhenVerified ==
    \A p \in Procs :
        LET s == inv[p]
            header == RequestHeader(s.ctx)
            parsed == parseAgentkitHeader(header.value)
        IN  (s.kind = "request" /\ s.result = "grantAccess") =>
                /\ header.present /\ ~parsed.threw /\ s.payload = parsed.data
                /\ SubSeq(s.trace, 1, 5) = <<"parse", "validate", "verify", "record", "lookup">>
                /\ s.payload.domain = "api.x"
                /\ s.payload.signature.signer = s.payload.address /\ s.payload.signature.wellFormed
                /\ Registry(s.payload.address) # 0
                /\ s.humanId = "0x" \o ToString(Registry(s.payload.address))
                /\ mode.type # "discount"

\* C6 witness: in free mode a verified request of a registered wallet was
\* granted.
C6_Witness ==
    /\ mode.type = "free"
    /\ \E p \in Procs : SettledRequest(inv[p]) /\ inv[p].result = "grantAccess" /\ inv[p].address = "0xC"

\* C7 as stated: whatever error is raised while the request hook processes
\* a present header (parse, storage, AgentBook, RPC, signature verifier), the
\* hook settles with no decision and one validation_failed event.
C7_ErrorsReportedAsValidationFailed ==
    \A p \in Procs :
        (SettledRequest(inv[p]) /\ inv[p].raised # "none") =>
            /\ inv[p].result = "none"
            /\ Len(inv[p].events) = 1 /\ inv[p].events[1].type = "validation_failed"

\* C7 amended: whatever error is raised while the request hook processes a
\* present header, the hook does not reject and settles with no decision; a
\* failed contract read (RPC error) is reported as one agent_not_verified
\* event, every other error as one validation_failed event.
C7_ErrorsFailClosed ==
    \A p \in Procs :
        (SettledRequest(inv[p]) /\ inv[p].raised # "none") =>
            /\ inv[p].result = "none"
            /\ Len(inv[p].events) = 1
            /\ inv[p].events[1].type =
                    IF inv[p].raised = "rpc" THEN "agent_not_verified" ELSE "validation_failed"

\* C7 witness: the contract read for registered wallet 0xA failed and the
\* request ended with no decision and an agent_not_verified event.
C7_Witness ==
    \E p \in Procs :
        /\ SettledRequest(inv[p]) /\ inv[p].raised = "rpc" /\ inv[p].address = "0xA"
        /\ inv[p].result = "none"
        /\ inv[p].events = <<[type |-> "agent_not_verified", resource |-> "/data", address |-> "0xA"]>>

\* C8: on any internal error (malformed resource URL, requirements.amount or
\* paid amount that is not an integer string, storage failure) the
\* verify-failure hook settles with no decision: it neither rejects nor
\* recovers.
C8_FailureHookErrorsGiveNoDecision ==
    \A p \in Procs :
        (SettledFailure(inv[p]) /\ inv[p].raised # "none") => inv[p].result = "none"

\* C9: in discount mode, given a pending record for (resource path, payer),
\* an underpayment error, a usage count below the cap, and integer amounts,
\* the verify-failure hook returns recovered if and only if
\* floor(required * (100 - percent) / 100) <= paid < required, and no
\* decision otherwise.
C9_RecoveredIffWithinDiscount ==
    \A p \in Procs :
        LET s == inv[p]
            required == BigIntOf(s.ctx.requirements.amount).n
            paid == extractPaidAmount(s.ctx.paymentPayload.payload)
            floor == (required * (100 - mode.percent)) \div 100
        IN  (SettledFailure(s) /\ Passed(s, "count") /\ ~DiscountExhausted(mode, s.count)
                /\ s.raised = "none" /\ ~paid.null) =>
                /\ s.result = "recovered" <=> (floor <= paid.n /\ paid.n < required)
                /\ s.result # "recovered" => s.result = "none"

\* C9 witness: at 33 percent off a required amount of 3 (discounted amount
\* 2.01, floored to 2) a payment of 2 was recovered.
C9_Witness ==
    /\ mode.percent = 33
    /\ \E p \in Procs :
        /\ SettledFailure(inv[p]) /\ inv[p].result = "recovered"
        /\ inv[p].ctx.requirements.amount = "3"
        /\ inv[p].ctx.paymentPayload.payload = Authorization("0xA", "2")

\* C10: the step in which the verify-failure hook returns recovered raises
\* the usage counter of (resource path, human of the payer) by exactly 1 and
\* no other counter, sets requirements.amount to the decimal string of the
\* paid amount, emits one discount_applied event, and gives
\* {isValid: true, payer: the wallet verified in the request phase}.
C10_RecoveryEffects ==
    [][\A p \in Procs :
        (inv[p].kind = "verifyFailure" /\ inv[p].pc = "count" /\ inv'[p].result = "recovered") =>
            LET s == inv'[p]
                payer == extractPayer(s.ctx.paymentPayload.payload)
                paid == extractPaidAmount(s.ctx.paymentPayload.payload)
                counter == CounterName(s.resourcePath, Registry(payer))
                before == IF counter \in DOMAIN usage THEN usage[counter] ELSE 0
            IN  /\ DOMAIN usage' = DOMAIN usage \cup {counter}
                /\ usage'[counter] = before + 1
                /\ \A k \in DOMAIN usage \ {counter} : usage'[k] = usage[k]
                /\ s.amount \in DecimalStrings /\ DecimalValue(s.amount) = paid.n
                /\ s.events = <<[type |-> "discount_applied", resource |-> s.resourcePath,
                                 address |-> payer, humanId |-> "0x" \o ToString(Registry(payer))]>>
                /\ s.value = [isValid |-> TRUE, payer |-> payer]
                /\ Registry(payer) # 0]_vars

\* C10 witness: wallet 0xB paid "0500" of 1000 by permit2 at 50 percent; the
\* payment was recovered and the required amount became "500".
C10_Witness ==
    \E p \in Procs :
        /\ SettledFailure(inv[p]) /\ inv[p].result = "recovered"
        /\ inv[p].ctx.paymentPayload.payload = Permit2("0xB", "0500")
        /\ inv[p].amount = "500"
        /\ inv[p].value = [isValid |-> TRUE, payer |-> "0xB"]
        /\ usage = ("/data:0x1" :> 1)


\* The discount flow with hooks called one at a time: two wallets of human 1
\* each verify and then underpay on /data, pay too little or the full price,
\* or fail for another reason.
MaxSeqCalls == 4

DiscountSeqFailures ==
    { FailureContext(DataUrl, Authorization("0xA", "500"), "1000", Underpaid),
      FailureContext(DataUrl, Permit2("0xB", "0500"), "1000", <<"permit2_insufficient_amount">>),
      FailureContext(DataUrl, Authorization("0xA", "499"), "1000", Underpaid),
      FailureContext(DataUrl, Authorization("0xA", "1000"), "1000", Underpaid),
      FailureContext(DataUrl, Authorization("0xA", "500"), "1000", <<"invalid_signature", ":", " bad">>) }

InitDiscountSeq ==
    /\ Init
    /\ mode.type = "discount"

CanStartSeq(p) ==
    /\ AllIdle
    /\ p = 1
    /\ calls < MaxSeqCalls

NextDiscountSeq ==
    \/ \E p \in Procs : \E ctx \in DiscountRequests : CanStartSeq(p) /\ RequestStart(p, ctx)
    \/ \E p \in Procs : NoneSettled /\ RequestAfterVerify(p)
    \/ \E p \in Procs : NoneSettled /\ RequestAfterLookup(p)
    \/ \E p \in Procs : \E ctx \in DiscountSeqFailures : CanStartSeq(p) /\ VerifyFailureStart(p, ctx)
    \/ \E p \in Procs : NoneSettled /\ VerifyFailureAfterCount(p)
    \/ \E p \in Procs : Release(p)

SpecDiscountSeq == InitDiscountSeq /\ [][NextDiscountSeq]_vars

\* Whether a settled invocation emitted an event of the given type.
Emitted(s, type) == \E i \in DOMAIN s.events : s.events[i].type = type

\* C11: in discount mode with a uses cap U, when hook invocations run one at
\* a time, the recovered results per (resource path, human) never exceed U
\* over all wallets of the human; the verify-failure hook reports
\* discount_exhausted exactly when the counter it read has reached U, and
\* then gives no decision and leaves the counter as it was. With uses
\* omitted it never reports discount_exhausted.
C11_DiscountCapSequential ==
    /\ mode.hasUses => \A k \in Paths \X Humans : recoveries[k] <= mode.uses
    /\ \A p \in Procs :
        LET s == inv[p]
        IN  (SettledFailure(s) /\ Passed(s, "count")) =>
                /\ Emitted(s, "discount_exhausted") <=> (mode.hasUses /\ s.count >= mode.uses)
                /\ Emitted(s, "discount_exhausted") =>
                        /\ s.result = "none"
                        /\ s.events = <<[type |-> "discount_exhausted", resource |-> s.resourcePath,
                                         address |-> s.pending.address, humanId |-> s.pending.humanId]>>
                        /\ ~Passed(s, "increment")
                        /\ usage = (CounterName(s.resourcePath, Registry(s.pending.address)) :> s.count)
                        /\ s.amount = s.ctx.requirements.amount

\* C11 witness: with cap 1, wallet 0xA of human 1 recovered a discount on
\* /data, and the later underpayment of wallet 0xB of the same human was
\* answered discount_exhausted with the counter still 1.
C11_Witness ==
    /\ mode.hasUses /\ mode.uses = 1
    /\ recoveries[<<"/data", 1>>] = 1
    /\ usage = ("/data:0x1" :> 1)
    /\ \E p \in Procs :
        /\ SettledFailure(inv[p]) /\ Passed(inv[p], "count")
        /\ inv[p].pending.address = "0xB"
        /\ Emitted(inv[p], "discount_exhausted") /\ inv[p].result = "none"


\* The chains the server advertises in supportedChains for its routes
\* (options.network), and requests whose payloads name other chains, other
\* namespaces or a signature type of the other namespace.
SupportedChains == {"eip155:8453"}

SolanaMainnet == "solana:5eykt4UsFv8P8NJdTREpY1vzqKqZKvdp"

ChainPayload(address, nonce, chainId, type) ==
    Signed(Unsigned(address, nonce, chainId, type, "api.x", DataUrl), address)

ChainRequests ==
    { Request("agentkit", Encoded(ChainPayload("0xA", "n1", "eip155:8453", "eip191")), "/data", DataUrl),
      Request("agentkit", Encoded(ChainPayload("0xA", "n2", "eip155:1", "eip191")), "/data", DataUrl),
      Request("agentkit", Encoded(ChainPayload("0xA", "n3", "eip155:8453", "ed25519")), "/data", DataUrl),
      Request("agentkit", Encoded(ChainPayload("So1A", "n1", SolanaMainnet, "eip191")), "/data", DataUrl),
      Request("agentkit", Encoded(ChainPayload("So1A", "n2", SolanaMainnet, "ed25519")), "/data", DataUrl),
      Request("agentkit", Encoded(ChainPayload("0xA", "n3", "eip155:abc", "eip191")), "/data", DataUrl),
      Request("agentkit", Encoded(ChainPayload("0xA", "n1", "cosmos:hub", "eip191")), "/data", DataUrl) }

NextChains ==
    \/ \E p \in Procs : \E ctx \in ChainRequests : CanStart(p) /\ RequestStart(p, ctx)
    \/ \E p \in Procs : NoneSettled /\ RequestAfterVerify(p)
    \/ \E p \in Procs : NoneSettled /\ RequestAfterLookup(p)
    \/ \E p \in Procs : NoneSettled /\ RequestAfterCount(p)
    \/ \E p \in Procs : Release(p)

SpecChains == Init /\ [][NextChains]_vars

\* C12: the request hook accepts a payload (reaches the AgentBook lookup, a
\* grant or the creation of a pending discount) only if its chainId is one
\* of the chains the server advertised.
C12_AcceptedChainIsAdvertised ==
    \A p \in Procs :
        (inv[p].kind = "request" /\ Passed(inv[p], "verify")
            /\ (inv[p].pc = "lookup" \/ Passed(inv[p], "lookup")))
        => inv[p].payload.chainId \in SupportedChains


\* C13: a payload passes parsing and signature verification only if its type
\* matches its chain namespace: eip191 with eip155:*, ed25519 with solana:*.
C13_TypeMatchesNamespace ==
    \A p \in Procs :
        (inv[p].kind = "request" /\ Passed(inv[p], "verify")) =>
            \/ inv[p].payload.type = "eip191"
                /\ inv[p].payload.chainId \in {"eip155:8453", "eip155:1", "eip155:abc"}
            \/ inv[p].payload.type = "ed25519" /\ inv[p].payload.chainId = SolanaMainnet


\* ------------------------------------------------- the validator by itself

\* The URLs clients and servers write, by their parts.
Urls ==
    { [scheme |-> "https", host |-> "api.x", port |-> "", path |-> "/data"],
      [scheme |-> "https", host |-> "api.x", port |-> "8443", path |-> "/data"],
      [scheme |-> "http", host |-> "api.x", port |-> "", path |-> "/data"],
      [scheme |-> "https", host |-> "evil.x", port |-> "", path |-> "/data"] }

\* The string of a URL.
UrlString(u) ==
    u.scheme \o "://" \o u.host \o (IF u.port = "" THEN "" ELSE ":" \o u.port) \o u.path

\* The instants timestamps are written for, in milliseconds.
Instants == {0, 200000, 400000, 600000}

\* new Date(ms).toISOString()
IsoString(ms) ==
    CASE ms = 0 -> "1970-01-01T00:00:00.000Z"
      [] ms = 200000 -> "1970-01-01T00:03:20.000Z"
      [] ms = 400000 -> "1970-01-01T00:06:40.000Z"
      [] ms = 600000 -> "1970-01-01T00:10:00.000Z"

\* The values of an optional timestamp field: omitted (undefined), empty,
\* a string that is no timestamp, or a timestamp.
OptionalStamps(instants) == {Undefined, "", "yesterday"} \cup {IsoString(t) : t \in instants}

\* A payload with an optional field set, or left out when v is undefined.
WithOptional(m, f, v) == IF v = Undefined THEN m ELSE m @@ (f :> v)

\* The payloads handed to the validator.
ValidatorMessage(domain, uri, issuedAt, expirationTime, notBefore) ==
    WithOptional(
        WithOptional([Unsigned("0xA", "n1", "eip155:8453", "eip191", domain, uri) EXCEPT !.issuedAt = issuedAt],
                     "expirationTime", expirationTime),
        "notBefore", notBefore)

ValidatorMessages ==
    { ValidatorMessage(domain, uri, issuedAt, expirationTime, notBefore) :
        domain \in {"api.x", "evil.x"},
        uri \in {UrlString(u) : u \in Urls} \cup {"not a url"},
        issuedAt \in {IsoString(0), IsoString(200000), IsoString(600000), "yesterday"},
        expirationTime \in OptionalStamps({200000}),
        notBefore \in OptionalStamps({400000}) }

\* The resource URIs the server passes: two URLs and a bare path.
ExpectedUris == {DataUrl, "https://api.x:8443/data", "/data"}

\* The values Date.now() takes.
ValidatorTimes == {0, 200000, 300000, 300001, 400000, 600000}

\* One call of validateAgentkitMessage at time t, settled.
ValidateCall(p, message, expectedResourceUri, maxAge, checkNonce, t) ==
    LET validation == validateAgentkitMessage(message, expectedResourceUri, maxAge, checkNonce, t)
    IN  /\ CanStart(p)
        /\ t >= now
        /\ now' = t
        /\ inv' = [inv EXCEPT ![p] =
                [kind |-> "validate", pc |-> "done", events |-> <<>>,
                 result |-> IF validation.threw THEN "rejected"
                            ELSE IF validation.valid THEN "valid" ELSE "invalid",
                 error |-> validation.error,
                 message |-> message, expectedResourceUri |-> expectedResourceUri,
                 maxAge |-> maxAge, checkNonce |-> checkNonce]]
        /\ UNCHANGED <<book, mode, usage, nonces, pendingDiscounts, calls, grants, recoveries>>

InitValidate ==
    /\ Init
    /\ mode.type = "free"

NextValidate ==
    \/ \E p \in Procs : CanStart(p) /\
       \E message \in ValidatorMessages : \E expected \in ExpectedUris :
       \E maxAge \in {DEFAULT_MAX_AGE_MS, 100000} :
       \E checkNonce \in {"absent", "fresh", "used", "error"} : \E t \in ValidatorTimes :
            ValidateCall(p, message, expected, maxAge, checkNonce, t)
    \/ \E p \in Procs : Release(p)

SpecValidate == InitValidate /\ [][NextValidate]_vars

\* C14: validateAgentkitMessage never throws or rejects: for every payload,
\* every expectedResourceUri string and every options value it resolves with
\* a {valid, error?} result.
C14_ValidatorNeverRejects ==
    \A p \in Procs : inv[p].kind = "validate" => inv[p].result # "rejected"


\* Whether a string is one of the URLs, and the URL it is the string of.
IsUrl(s) == \E u \in Urls : UrlString(u) = s

UrlOf(s) == CHOOSE u \in Urls : UrlString(u) = s

\* Whether a string is a timestamp, and the instant it is the timestamp of.
IsStamp(s) == \E t \in Instants : IsoString(t) = s

StampMs(s) == CHOOSE t \in Instants : IsoString(t) = s

\* The timestamps of a validated payload are within bounds at the time of
\* the call: issuedAt not in the future and not older than maxAge, no
\* expirationTime before now, no notBefore after now.
TimestampsWithinBounds(s) ==
    /\ IsStamp(s.message.issuedAt)
    /\ now - StampMs(s.message.issuedAt) >= 0
    /\ now - StampMs(s.message.issuedAt) <= s.maxAge
    /\ Has(s.message, "expirationTime") =>
            (IsStamp(s.message.expirationTime) /\ StampMs(s.message.expirationTime) >= now)
    /\ Has(s.message, "notBefore") =>
            (IsStamp(s.message.notBefore) /\ StampMs(s.message.notBefore) <= now)

\* C15: for a payload whose timestamps are within bounds and whose nonce is
\* fresh, validated against a resource URI that is a URL, validation fails
\* if and only if payload.domain differs from the hostname of the resource
\* URI or the origin (scheme, host, port) of payload.uri differs from the
\* origin of the resource URI; every accepted payload has domain equal to
\* the hostname of its own uri.
C15_DomainBinding ==
    \A p \in Procs :
        LET s == inv[p]
            expected == UrlOf(s.expectedResourceUri)
            sent == UrlOf(s.message.uri)
            bound == /\ s.message.domain = expected.host
                     /\ IsUrl(s.message.uri)
                     /\ sent.scheme = expected.scheme /\ sent.host = expected.host
                     /\ sent.port = expected.port
        IN  (s.kind = "validate" /\ IsUrl(s.expectedResourceUri)) =>
                /\ (TimestampsWithinBounds(s) /\ s.checkNonce \in {"absent", "fresh"}) =>
                        /\ s.result = "invalid" <=> ~bound
                        /\ s.result = "valid" <=> bound
                /\ s.result = "valid" =>
                        (bound /\ IsUrl(s.message.uri) /\ s.message.domain = sent.host)

\* C15 witness: a payload with domain api.x and uri https://api.x:8443/data
\* was accepted for the resource https://api.x:8443/data (the hostname
\* leaves the port out, the origin keeps it).
C15_Witness ==
    \E p \in Procs :
        /\ inv[p].kind = "validate" /\ inv[p].result = "valid"
        /\ inv[p].expectedResourceUri = "https://api.x:8443/data"
        /\ inv[p].message.uri = "https://api.x:8443/data"
        /\ inv[p].message.domain = "api.x"


\* A validated payload breaks one of the four temporal bounds at the time of
\* the call: older than maxAge, issued in the future, expired, or not yet
\* valid.
BreaksTemporalBound(s) ==
    \/ IsStamp(s.message.issuedAt) /\ now - StampMs(s.message.issuedAt) > s.maxAge
    \/ IsStamp(s.message.issuedAt) /\ StampMs(s.message.issuedAt) > now
    \/ /\ Has(s.message, "expirationTime") /\ IsStamp(s.message.expirationTime)
       /\ StampMs(s.message.expirationTime) < now
    \/ /\ Has(s.message, "notBefore") /\ IsStamp(s.message.notBefore)
       /\ StampMs(s.message.notBefore) > now

\* C16: validateAgentkitMessage fails whenever now - issuedAt > maxAge
\* (default 300 s), whenever issuedAt > now, whenever expirationTime is a
\* timestamp earlier than now and whenever notBefore is a timestamp later
\* than now: no payload breaking one of these bounds is accepted, and
\* against a resource URI that is a URL the result is {valid: false}.
C16_TemporalWindow ==
    \A p \in Procs :
        (inv[p].kind = "validate" /\ BreaksTemporalBound(inv[p])) =>
            /\ inv[p].result # "valid"
            /\ IsUrl(inv[p].expectedResourceUri) => inv[p].result = "invalid"

\* C16 witness: a payload issued at 0 and otherwise in order was refused as
\* too old at 300001 ms under the default maxAge.
C16_Witness ==
    \E p \in Procs :
        /\ inv[p].kind = "validate" /\ inv[p].result = "invalid"
        /\ now = 300001 /\ inv[p].maxAge = DEFAULT_MAX_AGE_MS
        /\ inv[p].message.issuedAt = IsoString(0)
        /\ inv[p].error = "Message too old"


\* C17: verifyAgentkitSignature never throws or rejects, whatever the
\* chainId: for a namespace that is neither eip155 nor solana it resolves
\* to {valid: false} with the error "Unsupported chain namespace: <chainId>
\* ...", and for a malformed eip155 reference it resolves to {valid: false,
\* error} as well.
C17_VerifierNeverRejects ==
    \A p \in Procs :
        (inv[p].kind = "request" /\ inv[p].pc = "verify") =>
            /\ ~inv[p].awaited.threw
            /\ inv[p].payload.chainId = "cosmos:hub" =>
                    /\ ~inv[p].awaited.valid
                    /\ inv[p].awaited.error =
                        "Unsupported chain namespace: cosmos:hub. Supported: eip155:* (EVM), solana:* (Solana)"
            /\ inv[p].payload.chainId = "eip155:abc" => ~inv[p].awaited.valid


\* ------------------------------------------------------- hook construction

\* A value given for mode.percent: a number (in tenths, so 15 is 1.5) or a
\* value that is no number (NaN, a string, undefined).
PercentValue(isNumber, tenths) == [isNumber |-> isNumber, tenths |-> tenths]

PercentValues ==
    {PercentValue(TRUE, t) : t \in {-10, 0, 5, 10, 15, 335, 500, 995, 1000, 1001, 1005, 1010, 2000}}
    \cup {PercentValue(FALSE, 0)}

\* A test that takes every number for an integer.
NumberIsIntegerAlways(v) == v.isNumber

\* Number.isInteger(v)
NumberIsInteger(v) == v.isNumber /\ v.tenths % 10 = 0

\* The values of options.mode, and the options createAgentkitHooks is
\* called with: mode and storage may each be omitted.
ConfiguredModes ==
    { [type |-> "free", hasUses |-> FALSE, uses |-> 0, percent |-> PercentValue(FALSE, 0)] }
    \cup { [type |-> "free-trial", hasUses |-> h, uses |-> u, percent |-> PercentValue(FALSE, 0)] :
            h \in BOOLEAN, u \in 1..2 }
    \cup { [type |-> "discount", hasUses |-> h, uses |-> u, percent |-> pct] :
            h \in BOOLEAN, u \in 1..2, pct \in PercentValues }

CreateOptions ==
    { [hasMode |-> hm, mode |-> m, hasStorage |-> st] :
        hm \in BOOLEAN, m \in ConfiguredModes, st \in BOOLEAN }

\* createAgentkitHooks up to its return: threw, or the hooks it returns.
createAgentkitHooks(options) ==
    LET m == IF options.hasMode THEN options.mode
             ELSE [type |-> "free", hasUses |-> FALSE, uses |-> 0, percent |-> PercentValue(FALSE, 0)]
    IN  IF m.type \in {"free-trial", "discount"} /\ ~options.hasStorage
        THEN [threw |-> TRUE, error |-> "AgentKit mode \"" \o m.type \o "\" requires a storage instance",
              hooks |-> {}]
        ELSE IF m.type = "discount"
                /\ (~NumberIsInteger(m.percent) \/ m.percent.tenths <= 0 \/ m.percent.tenths > 1000)
        THEN [threw |-> TRUE, error |-> "Discount percent must be an integer between 1 and 100",
              hooks |-> {}]
        ELSE [threw |-> FALSE, error |-> Undefined,
              hooks |-> IF m.type = "discount" THEN {"requestHook", "verifyFailureHook"}
                        ELSE {"requestHook"}]

\* One call of createAgentkitHooks, settled.
CreateCall(p, options) ==
    LET created == createAgentkitHooks(options)
    IN  /\ CanStart(p)
        /\ inv' = [inv EXCEPT ![p] =
                [kind |-> "create", pc |-> "done", events |-> <<>>,
                 result |-> IF created.threw THEN "threw" ELSE "created",
                 error |-> created.error, hooks |-> created.hooks, options |-> options]]
        /\ UNCHANGED <<book, mode, usage, nonces, pendingDiscounts, now, calls, grants, recoveries>>

InitCreate ==
    /\ Init
    /\ mode.type = "free"

NextCreate ==
    \/ \E p \in Procs : CanStart(p) /\ \E options \in CreateOptions : CreateCall(p, options)
    \/ \E p \in Procs : Release(p)

SpecCreate == InitCreate /\ [][NextCreate]_vars

\* C18: createAgentkitHooks throws, returning no hooks, exactly when the
\* mode is free-trial or discount and no storage is supplied, or the mode is
\* discount and its percent is not an integer in 1..100; with mode free or
\* no mode it succeeds without storage.
C18_ConstructionErrors ==
    \A p \in Procs :
        LET s == inv[p]
            m == s.options.mode
            configured == s.options.hasMode /\ m.type # "free"
            wholePercent == m.percent.isNumber /\ \E k \in 1..100 : m.percent.tenths = 10 * k
            mustFail == \/ configured /\ ~s.options.hasStorage
                        \/ configured /\ m.type = "discount" /\ ~wholePercent
        IN  s.kind = "create" =>
                /\ s.result = "threw" <=> mustFail
                /\ s.result = "threw" => s.hooks = {}
                /\ s.result # "threw" => (s.result = "created" /\ "requestHook" \in s.hooks)

\* C18 witness: discount mode with percent 1.5 and a storage instance was
\* refused at construction.
C18_Witness ==
    \E p \in Procs :
        /\ inv[p].kind = "create" /\ inv[p].result = "threw"
        /\ inv[p].options.hasMode /\ inv[p].options.hasStorage
        /\ inv[p].options.mode.type = "discount"
        /\ inv[p].options.mode.percent = PercentValue(TRUE, 15)

\* ------------------------------------------------ the AgentBook client by itself

\* Every way createAgentBookVerifier can be configured.
LookupOptions == [client : BOOLEAN, contractAddress : BOOLEAN, rpcUrl : BOOLEAN]

\* Agents looked up: registered under small and large identifiers, and
\* unregistered.
LookupAddresses == {"0xA", "0xC", "0xD", "0xE", "0xF"}

LookupChains == {"eip155:8453", "eip155:1", "eip155:abc", SolanaMainnet}

LookupRequests ==
    { Request("agentkit", Encoded(EvmPayload("0xA", "n1", DataUrl)), "/data", DataUrl),
      Request("agentkit", Encoded(EvmPayload("0xD", "n2", DataUrl)), "/data", DataUrl) }

\* One call of verifier.lookupHuman, settled: the promise resolved to null or
\* to an identifier, or rejected.
LookupCall(p, options, address, chainId, rpcOk) ==
    LET found == lookupHuman(options, address, chainId, rpcOk)
    IN  /\ CanStart(p)
        /\ inv' = [inv EXCEPT ![p] =
                [kind |-> "lookup", pc |-> "done", events |-> <<>>,
                 result |-> IF found.threw THEN "rejected"
                            ELSE IF found.humanId = Null THEN "null" ELSE "id",
                 humanId |-> found.humanId, error |-> found.error,
                 options |-> options, address |-> address, chainId |-> chainId, rpcOk |-> rpcOk]]
        /\ UNCHANGED <<book, mode, usage, nonces, pendingDiscounts, now, calls, grants, recoveries>>

NextLookup ==
    \/ \E p \in Procs : AllIdle /\ CanStart(p) /\
          \E options \in LookupOptions, address \in LookupAddresses,
             chainId \in LookupChains, rpcOk \in BOOLEAN :
                LookupCall(p, options, address, chainId, rpcOk)
    \/ \E p \in Procs : \E ctx \in LookupRequests : CanStart(p) /\ RequestStart(p, ctx)
    \/ \E p \in Procs : NoneSettled /\ RequestAfterVerify(p)
    \/ \E p \in Procs : NoneSettled /\ RequestAfterLookup(p)
    \/ \E p \in Procs : NoneSettled /\ RequestAfterCount(p)
    \/ \E p \in Procs : Release(p)

SpecLookup == Init /\ [][NextLookup]_vars

\* C19: a lookup that reaches the contract read (it has an address to read
\* from and a client to read with) resolves to null when the
\* read fails and when the contract returns 0, and otherwise to the
\* contract's identifier in lowercase hex; in the request hook a failed read
\* gives a null identifier and never grantAccess.
C19_LookupNullOrHex ==
    \A p \in Procs :
        LET s == inv[p]
            id == Registry(s.address)
            reachedRead == /\ s.options.contractAddress
                           /\ s.options.client \/ s.chainId \in {"eip155:8453", "eip155:1"}
            hex == CASE id = 1 -> "0x1" [] id = 2 -> "0x2" [] id = 26 -> "0x1a"
                     [] id = 255 -> "0xff" [] OTHER -> "?"
        IN  /\ (s.kind = "lookup" /\ reachedRead) =>
                /\ ~s.rpcOk => (s.result = "null" /\ s.humanId = Null)
                /\ (s.rpcOk /\ id = 0) => (s.result = "null" /\ s.humanId = Null)
                /\ (s.rpcOk /\ id # 0) => (s.result = "id" /\ s.humanId = hex)
            /\ (SettledRequest(s) /\ s.raised = "rpc") =>
                (s.humanId = Null /\ s.result # "grantAccess")

\* C19 witness: the read for an agent registered under identifier 255
\* failed and the lookup resolved to null.
C19_Witness ==
    \E p \in Procs :
        /\ inv[p].kind = "lookup"
        /\ inv[p].options.contractAddress /\ inv[p].chainId = "eip155:8453"
        /\ ~inv[p].rpcOk /\ Registry(inv[p].address) = 255
        /\ inv[p].result = "null"

\* C20: a lookup for a chain with no built-in deployment and no
\* contractAddress override resolves to null; it does not reject.
C20_UnconfiguredChainGivesNull ==
    \A p \in Procs :
        LET s == inv[p]
        IN  (s.kind = "lookup" /\ ~s.options.contractAddress /\ s.chainId \notin KNOWN_DEPLOYMENTS) =>
                s.result = "null"

\* ------------------------------------------------------- header spellings

\* The same correctly signed payload under either spelling of the header
\* name, through an adapter that matches names exactly or one that ignores
\* case (as Node lower-cases incoming names); a request without it; and
\* header values that fail to parse: outside the base64 alphabet (whether or
\* not the bytes would decode to a payload), base64 of something that is no
\* JSON, and JSON that lacks a required field or names an unknown type.
HeaderRequests ==
    LET payload == EvmPayload("0xA", "n1", DataUrl)
    IN  { [headers |-> (name :> Encoded(EvmPayload(address, "n1", DataUrl))),
           caseSensitive |-> caseSensitive, path |-> "/data", url |-> DataUrl] :
             name \in {"agentkit", "Agentkit"}, address \in {"0xA", "0xD"},
             caseSensitive \in BOOLEAN }
        \cup { [headers |-> <<>>, caseSensitive |-> TRUE, path |-> "/data", url |-> DataUrl] }
        \cup { Request("agentkit", [base64 |-> FALSE, json |-> json, value |-> payload], "/data", DataUrl) :
                    json \in BOOLEAN }
        \cup { Request("agentkit", [base64 |-> TRUE, json |-> FALSE, value |-> <<>>], "/data", DataUrl) }
        \cup { Request("agentkit", Encoded([f \in DOMAIN payload \ {missing} |-> payload[f]]), "/data", DataUrl) :
                    missing \in RequiredFields }
        \cup { Request("agentkit", Encoded([payload EXCEPT !.type = "rsa"]), "/data", DataUrl) }

NextHeaders ==
    \/ \E p \in Procs : \E ctx \in HeaderRequests : CanStart(p) /\ RequestStart(p, ctx)
    \/ \E p \in Procs : NoneSettled /\ RequestAfterVerify(p)
    \/ \E p \in Procs : NoneSettled /\ RequestAfterLookup(p)
    \/ \E p \in Procs : NoneSettled /\ RequestAfterCount(p)
    \/ \E p \in Procs : Release(p)

SpecHeaders == Init /\ [][NextHeaders]_vars

\* C21: a request that carries a well-formed payload under the name agentkit
\* or under the name Agentkit is found and processed by the request hook
\* (its payload is parsed), whatever the adapter does with case.
C21_BothSpellingsAccepted ==
    \A p \in Procs :
        LET s == inv[p]
        IN  (/\ s.kind = "request" /\ DOMAIN s.ctx.headers \cap {"agentkit", "Agentkit"} # {}
             /\ \A name \in DOMAIN s.ctx.headers : ~parseAgentkitHeader(s.ctx.headers[name]).threw) =>
                Passed(s, "parse")

\* C22: an invocation of the request hook for a request without an agentkit
\* header settles at once with no decision, emits nothing, takes none of
\* the steps that read or write the nonce set, a counter or the pending map
\* or call the AgentBook, and leaves all of them as they were.
C22_NoHeaderNoEffect ==
    [][\A p \in Procs :
        (inv[p].kind = "idle" /\ inv'[p].kind = "request" /\ DOMAIN inv'[p].ctx.headers = {}) =>
            /\ inv'[p].pc = "done" /\ inv'[p].result = "none"
            /\ inv'[p].events = <<>>
            /\ inv'[p].trace = <<>> /\ inv'[p].awaited = Nothing
            /\ usage' = usage /\ nonces' = nonces /\ pendingDiscounts' = pendingDiscounts
            /\ grants' = grants /\ recoveries' = recoveries]_vars

\* C22 witness: a request without the header has settled while nonces and a
\* counter were on record.
C22_Witness ==
    \E p \in Procs :
        /\ SettledRequest(inv[p]) /\ DOMAIN inv[p].ctx.headers = {}
        /\ inv[p].result = "none" /\ inv[p].events = <<>>
        /\ nonces # {} /\ DOMAIN usage # {}

\* C23: in free-trial mode the step that grants a request raises the counter
\* of the request's (path, human) by exactly 1 (an absent counter becomes 1)
\* and changes no other counter; the step that refuses a request because the
\* count it read has reached the cap changes no counter.
C23_FreeTrialCounterEffects ==
    [][\A p \in Procs :
        (mode.type = "free-trial" /\ inv[p].kind = "request" /\ inv[p].pc = "count"
            /\ inv'[p].pc = "done") =>
            LET s == inv'[p]
                counter == CounterName(s.ctx.path, Registry(s.payload.address))
                before == IF counter \in DOMAIN usage THEN usage[counter] ELSE 0
            IN  /\ s.result = "grantAccess" =>
                    /\ DOMAIN usage' = DOMAIN usage \cup {counter}
                    /\ usage'[counter] = before + 1
                    /\ \A k \in DOMAIN usage \ {counter} : usage'[k] = usage[k]
                /\ (s.raised = "none" /\ s.count >= FreeTrialUses(mode)) =>
                    (s.result = "none" /\ usage' = usage)]_vars

\* C23 witness: with cap 2 both cases have happened for human 1 on /data:
\* the counter stands at 2 after its grants and a further request that read
\* 2 was refused.
C23_Witness ==
    /\ mode.type = "free-trial" /\ mode.hasUses
    /\ usage = ("/data:0x1" :> 2)
    /\ \E p \in Procs :
        /\ SettledRequest(inv[p]) /\ Passed(inv[p], "count")
        /\ inv[p].count = 2 /\ inv[p].result = "none" /\ inv[p].raised = "none"

\* C24: the step in which the verify-failure hook settles with no decision
\* changes no usage counter and leaves requirements.amount as it was given;
\* and the hook does settle with no decision when, no error being raised,
\* there was no pending record, the error is outside the underpayment set,
\* the count read has reached the cap, the paid amount is below the
\* discounted amount, or it is at or above the required amount.
C24_NoDecisionNoEffect ==
    [][\A p \in Procs :
        (inv[p].pc # "done" /\ inv'[p].kind = "verifyFailure" /\ inv'[p].pc = "done") =>
            LET s == inv'[p]
                payer == extractPayer(s.ctx.paymentPayload.payload)
                required == BigIntOf(s.ctx.requirements.amount).n
                paid == extractPaidAmount(s.ctx.paymentPayload.payload)
                floor == (required * (100 - mode.percent)) \div 100
                noPending == /\ inv[p].kind = "idle"
                             /\ \A k \in DOMAIN pendingDiscounts :
                                    k # s.resourcePath \o ":" \o payer
                otherError == Head(s.ctx.error.message) \notin UNDERPAYMENT_REASONS
                capReached == Passed(s, "count") /\ mode.hasUses /\ s.count >= mode.uses
                below == ~paid.null /\ paid.n < floor
                atOrAbove == ~paid.null /\ paid.n >= required
            IN  /\ s.result = "none" =>
                    /\ usage' = usage
                    /\ s.amount = s.ctx.requirements.amount
                /\ (s.raised = "none"
                        /\ (noPending \/ otherError \/ capReached \/ below \/ atOrAbove)) =>
                    s.result = "none"]_vars

\* C24 witness: with a counter on record after a recovery, a pending record
\* was taken, the count was below the cap and the payment of the full price
\* 1000 got no decision.
C24_Witness ==
    \E p \in Procs :
        /\ SettledFailure(inv[p]) /\ inv[p].result = "none" /\ inv[p].raised = "none"
        /\ Passed(inv[p], "count") /\ inv[p].count = 1 /\ ~mode.hasUses
        /\ usage = ("/data:0x1" :> 1)
        /\ inv[p].ctx.paymentPayload.payload = Authorization("0xA", "1000")
        /\ inv[p].amount = "1000"

\* C25: no step of either hook removes or lowers a usage counter; a step
\* changes at most one counter, raising it by exactly 1 (an absent counter
\* becomes 1), and it is the step in which an invocation settles after
\* reading the count, so one invocation raises at most one counter once.
C25_CountersMonotonic ==
    [][LET changed == {k \in DOMAIN usage' : k \notin DOMAIN usage \/ usage'[k] # usage[k]}
       IN  /\ DOMAIN usage \subseteq DOMAIN usage'
           /\ \A k \in DOMAIN usage : usage'[k] >= usage[k]
           /\ Cardinality(changed) <= 1
           /\ \A k \in changed : usage'[k] = (IF k \in DOMAIN usage THEN usage[k] ELSE 0) + 1
           /\ changed # {} =>
                \E p \in Procs : /\ inv[p].pc = "count" /\ inv'[p].pc = "done"
                                 /\ inv'[p].result \in {"grantAccess", "recovered"}]_vars

\* C25 witness: two counters are on record, one raised twice, after three
\* grants.
C25_Witness ==
    /\ usage = ("/data:0x1" :> 2) @@ ("/data:0x2" :> 1)
    /\ \E p \in Procs : SettledRequest(inv[p]) /\ inv[p].result = "grantAccess"

\* ------------------------------------------------- AgentBook contract calls

\* Successful registrations per agent.
MaxRegistrations == 2

\* A call of the contract settles: with error "" its writes stand, otherwise
\* it reverted with that error.
BookCallDone(p, fn, caller, args, error, written) ==
    /\ CanStart(p)
    /\ inv' = [inv EXCEPT ![p] =
            [kind |-> "book", pc |-> "done", events |-> <<>>,
             result |-> IF error = "" THEN "ok" ELSE "reverted",
             error |-> error, fn |-> fn, caller |-> caller, args |-> args]]
    /\ book' = IF error = "" THEN written ELSE Revert(book, written)
    /\ UNCHANGED <<mode, usage, nonces, pendingDiscounts, now, calls, grants, recoveries>>

\* constructor(_worldIdRouter, _groupId, _externalNullifierHash), with
\* Ownable(msg.sender)
Deploy(p, caller, router, groupId) ==
    /\ ~book.deployed
    /\ BookCallDone(p, "constructor", caller, [router |-> router, groupId |-> groupId],
            IF router = AddressZero THEN "InvalidConfiguration" ELSE "",
            [book EXCEPT !.deployed = TRUE, !.owner = caller,
                         !.groupId = groupId, !.worldIdRouter = router])

\* A registration that keeps an agent's first identifier.
RegisterKeepFirst(p, caller, agent, nonce, nullifierHash, valid) ==
    /\ book.deployed
    /\ book.registrations[agent] < MaxRegistrations
    /\ BookCallDone(p, "register", caller,
            [agent |-> agent, nonce |-> nonce, nullifierHash |-> nullifierHash, valid |-> valid],
            IF valid THEN "" ELSE "Invalid proof",
            [book EXCEPT !.lookupHuman[agent] = IF @ = 0 THEN nullifierHash ELSE @,
                         !.registrations[agent] = @ + 1])

\* register(agent, root, nonce, nullifierHash, proof): the entry is written,
\* then the router verifies the proof for the signal (agent, nonce) and
\* reverts unless it is valid.
Register(p, caller, agent, nonce, nullifierHash, valid) ==
    /\ book.deployed
    /\ book.registrations[agent] < MaxRegistrations
    /\ BookCallDone(p, "register", caller,
            [agent |-> agent, nonce |-> nonce, nullifierHash |-> nullifierHash, valid |-> valid],
            IF valid THEN "" ELSE "Invalid proof",
            IF valid
            THEN [book EXCEPT !.lookupHuman[agent] = nullifierHash,
                              !.registrations[agent] = @ + 1]
            ELSE [book EXCEPT !.lookupHuman[agent] = nullifierHash])

\* setWorldIdRouter(_worldIdRouter) onlyOwner
SetWorldIdRouter(p, caller, router) ==
    /\ book.deployed
    /\ BookCallDone(p, "setWorldIdRouter", caller, [router |-> router],
            IF caller # book.owner THEN "OwnableUnauthorizedAccount"
            ELSE IF router = AddressZero THEN "InvalidConfiguration" ELSE "",
            [book EXCEPT !.worldIdRouter = router])

\* A setter that anyone may call.
SetGroupIdByAnyone(p, caller, groupId) ==
    /\ book.deployed
    /\ BookCallDone(p, "setGroupId", caller, [groupId |-> groupId], "",
            [book EXCEPT !.groupId = groupId])

\* setGroupId(_groupId) onlyOwner
SetGroupId(p, caller, groupId) ==
    /\ book.deployed
    /\ BookCallDone(p, "setGroupId", caller, [groupId |-> groupId],
            IF caller # book.owner THEN "OwnableUnauthorizedAccount" ELSE "",
            [book EXCEPT !.groupId = groupId])

\* renounceOwnership() onlyOwner: always reverts
RenounceOwnership(p, caller) ==
    /\ book.deployed
    /\ BookCallDone(p, "renounceOwnership", caller, <<>>,
            IF caller # book.owner THEN "OwnableUnauthorizedAccount"
            ELSE "CannotRenounceOwnership",
            book)

\* A transfer in one step: the nominated address owns the contract at once.
TransferOwnershipAtOnce(p, caller, newOwner) ==
    /\ book.deployed
    /\ BookCallDone(p, "transferOwnership", caller, [newOwner |-> newOwner],
            IF caller # book.owner THEN "OwnableUnauthorizedAccount" ELSE "",
            [book EXCEPT !.owner = newOwner])

\* Ownable2Step.transferOwnership(newOwner) onlyOwner: nominates newOwner
TransferOwnership(p, caller, newOwner) ==
    /\ book.deployed
    /\ BookCallDone(p, "transferOwnership", caller, [newOwner |-> newOwner],
            IF caller # book.owner THEN "OwnableUnauthorizedAccount" ELSE "",
            [book EXCEPT !.pendingOwner = newOwner])

\* Ownable2Step.acceptOwnership(): the nominated address takes ownership
AcceptOwnership(p, caller) ==
    /\ book.deployed
    /\ BookCallDone(p, "acceptOwnership", caller, <<>>,
            IF caller # book.pendingOwner THEN "OwnableUnauthorizedAccount" ELSE "",
            [book EXCEPT !.owner = caller, !.pendingOwner = AddressZero])

InitBook ==
    /\ Init
    /\ mode.type = "free"

NextBook ==
    \/ \E p \in Procs : \E caller \in BookInputs.callers, router \in BookInputs.routers,
                           groupId \in BookInputs.groupIds : Deploy(p, caller, router, groupId)
    \/ \E p \in Procs : \E agent \in BookInputs.agents, nonce \in BookInputs.nonces,
                           nullifierHash \in BookInputs.nullifierHashes, valid \in BOOLEAN :
                               Register(p, "0x1", agent, nonce, nullifierHash, valid)
    \/ \E p \in Procs : \E caller \in BookInputs.callers, router \in BookInputs.routers :
                               SetWorldIdRouter(p, caller, router)
    \/ \E p \in Procs : \E caller \in BookInputs.callers, groupId \in BookInputs.groupIds :
                               SetGroupId(p, caller, groupId)
    \/ \E p \in Procs : \E caller \in BookInputs.callers : RenounceOwnership(p, caller)
    \/ \E p \in Procs : \E caller \in BookInputs.callers,
                           newOwner \in BookInputs.callers \cup {AddressZero} :
                               TransferOwnership(p, caller, newOwner)
    \/ \E p \in Procs : \E caller \in BookInputs.callers : AcceptOwnership(p, caller)
    \/ \E p \in Procs : Release(p)

SpecBook == InitBook /\ [][NextBook]_vars

\* C26: a register call whose nonce differs from the number of successful
\* registrations of its agent so far (the agent's next nonce, starting at 0
\* and raised by 1 with each registration) reverts, with InvalidNonce when
\* the proof itself is valid, and leaves the registry unchanged.
C26_RegisterChecksNonce ==
    [][\A p \in Procs :
        (inv[p].kind = "idle" /\ inv'[p].kind = "book" /\ inv'[p].fn = "register") =>
            LET s == inv'[p]
            IN  s.args.nonce # book.registrations[s.args.agent] =>
                    /\ s.result = "reverted"
                    /\ s.args.valid => s.error = "InvalidNonce"
                    /\ book'.lookupHuman = book.lookupHuman]_vars

\* C27: a register call with a proof the router rejects reverts and leaves
\* the contract's storage, and so lookupHuman of every agent, as it was.
C27_InvalidProofChangesNothing ==
    [][\A p \in Procs :
        (inv[p].kind = "idle" /\ inv'[p].kind = "book" /\ inv'[p].fn = "register"
            /\ ~inv'[p].args.valid) =>
                /\ inv'[p].result = "reverted"
                /\ \A a \in BookInputs.agents : book'.lookupHuman[a] = book.lookupHuman[a]
                /\ book' = book]_vars

\* C27 witness: a registration of agent 0x1 under 22136 with a rejected
\* proof has reverted while 0x1 stays registered under 4660.
C27_Witness ==
    \E p \in Procs :
        /\ inv[p].kind = "book" /\ inv[p].fn = "register" /\ inv[p].result = "reverted"
        /\ inv[p].args.agent = "0x1" /\ inv[p].args.nullifierHash = 22136
        /\ book.lookupHuman["0x1"] = 4660

\* C28: lookupHuman of an agent never registered is 0; a successful
\* registration sets lookupHuman of its agent to its nullifierHash, whatever
\* the entry held and whoever else holds that identifier, and changes the
\* entry of no other agent; no other call changes any entry.
C28_RegistryHoldsLatestRegistration ==
    [][/\ \A a \in BookInputs.agents :
            /\ book.registrations[a] = 0 => book.lookupHuman[a] = 0
            /\ book'.registrations[a] = 0 => book'.lookupHuman[a] = 0
       /\ \A p \in Procs :
            (inv[p].kind = "idle" /\ inv'[p].kind = "book") =>
                LET s == inv'[p]
                IN  IF s.fn = "register" /\ s.args.valid
                    THEN /\ s.result = "ok"
                         /\ book'.lookupHuman[s.args.agent] = s.args.nullifierHash
                         /\ \A b \in BookInputs.agents \ {s.args.agent} :
                                book'.lookupHuman[b] = book.lookupHuman[b]
                    ELSE book'.lookupHuman = book.lookupHuman]_vars

\* C28 witness: agent 0x1, first registered under 22136, was registered
\* again under 4660, the identifier agent 0x2 holds too.
C28_Witness ==
    /\ book.lookupHuman["0x1"] = 4660 /\ book.lookupHuman["0x2"] = 4660
    /\ book.registrations["0x1"] = 2
    /\ \E p \in Procs :
        /\ inv[p].kind = "book" /\ inv[p].fn = "register" /\ inv[p].result = "ok"
        /\ inv[p].args.agent = "0x1" /\ inv[p].args.nullifierHash = 4660

\* C29: setWorldIdRouter and setGroupId revert, changing nothing, for every
\* caller but the owner; worldIdRouter and groupId change only in their
\* setter called by the owner; the constructor and setWorldIdRouter revert
\* with InvalidConfiguration on a zero router, and a deployed contract's
\* worldIdRouter is never the zero address.
C29_ConfigurationOwnerOnly ==
    [][/\ book'.deployed => book'.worldIdRouter # AddressZero
       /\ \A p \in Procs :
            (inv[p].kind = "idle" /\ inv'[p].kind = "book") =>
                LET s == inv'[p]
                    setter == s.fn \in {"setWorldIdRouter", "setGroupId"}
                IN  /\ (setter /\ s.caller # book.owner) =>
                            (s.result = "reverted" /\ book' = book)
                    /\ (s.fn \in {"constructor", "setWorldIdRouter"} /\ s.args.router = AddressZero
                            /\ (s.fn = "constructor" \/ s.caller = book.owner)) =>
                            (s.result = "reverted" /\ s.error = "InvalidConfiguration" /\ book' = book)
                    /\ (s.fn = "setWorldIdRouter" /\ s.caller = book.owner
                            /\ s.args.router # AddressZero) =>
                            (s.result = "ok" /\ book'.worldIdRouter = s.args.router)
                    /\ (s.fn = "setGroupId" /\ s.caller = book.owner) =>
                            (s.result = "ok" /\ book'.groupId = s.args.groupId)
                    /\ (book.deployed /\ book'.worldIdRouter # book.worldIdRouter) =>
                            (s.fn = "setWorldIdRouter" /\ s.caller = book.owner)
                    /\ (book.deployed /\ book'.groupId # book.groupId) =>
                            (s.fn = "setGroupId" /\ s.caller = book.owner)]_vars

\* C29 witness: a call of setGroupId(2) by an account that is not the owner
\* has reverted and groupId is still 1.
C29_Witness ==
    \E p \in Procs :
        /\ inv[p].kind = "book" /\ inv[p].fn = "setGroupId" /\ inv[p].result = "reverted"
        /\ inv[p].caller # book.owner /\ inv[p].args.groupId = 2
        /\ book.groupId = 1

\* C30: renounceOwnership reverts for every caller, with
\* CannotRenounceOwnership for the owner, and a deployed contract always
\* has an owner; transferOwnership leaves owner() as it is; owner() changes
\* only when the nominated address calls acceptOwnership, and becomes that
\* address; every owner-only function reverts for a caller who is not the
\* current owner, so for the previous owner after an acceptance.
C30_OwnershipTwoStep ==
    [][/\ book'.deployed => book'.owner # AddressZero
       /\ \A p \in Procs :
            (inv[p].kind = "idle" /\ inv'[p].kind = "book") =>
                LET s == inv'[p]
                    ownerOnly == s.fn \in {"setWorldIdRouter", "setGroupId",
                                           "transferOwnership", "renounceOwnership"}
                IN  /\ s.fn = "renounceOwnership" =>
                            /\ s.result = "reverted" /\ book' = book
                            /\ s.caller = book.owner => s.error = "CannotRenounceOwnership"
                    /\ s.fn = "transferOwnership" => book'.owner = book.owner
                    /\ (book.deployed /\ book'.owner # book.owner) =>
                            /\ s.fn = "acceptOwnership" /\ s.result = "ok"
                            /\ s.caller = book.pendingOwner /\ book'.owner = s.caller
                    /\ (s.fn = "acceptOwnership" /\ s.caller = book.pendingOwner) =>
                            (s.result = "ok" /\ book'.owner = s.caller)
                    /\ (ownerOnly /\ s.caller # book.owner) =>
                            (s.result = "reverted" /\ book' = book)]_vars

\* C30 witness: 0x1 owns the contract deployed by 0xT after accepting its
\* nomination, and a call of setGroupId by 0xT has reverted.
C30_Witness ==
    /\ book.owner = "0x1"
    /\ \E p \in Procs :
        /\ inv[p].kind = "book" /\ inv[p].fn = "setGroupId" /\ inv[p].result = "reverted"
        /\ inv[p].caller = "0xT"

\* C31: the nonce set changes only in the step after a signature
\* verification that succeeded (the payload passed validation and is signed
\* by the key of its address), by exactly the nonce of that payload; the
\* step in which a request settles without having passed verification (no
\* header, parse, validation or signature failure) leaves the nonce set as
\* it was, so the nonce of a failed request is not reported as a replay.
C31_FailuresConsumeNoNonce ==
    [][/\ nonces' # nonces =>
            \E p \in Procs :
                /\ inv[p].kind = "request" /\ inv[p].pc = "verify" /\ inv'[p].pc = "lookup"
                /\ Passed(inv[p], "validate")
                /\ inv[p].payload.signature.wellFormed
                /\ inv[p].payload.signature.signer = inv[p].payload.address
                /\ nonces' = nonces \cup {inv[p].payload.nonce}
       /\ \A p \in Procs :
            (inv[p].pc # "done" /\ inv'[p].kind = "request" /\ inv'[p].pc = "done"
                /\ ~Passed(inv'[p], "verify")) =>
                    /\ nonces' = nonces
                    /\ ~Passed(inv'[p], "record")]_vars

\* C31 witness: a request for 0xA with nonce n1 signed by another wallet's
\* key has failed verification and n1 is not in the nonce set.
C31_Witness ==
    \E p \in Procs :
        /\ SettledRequest(inv[p]) /\ Passed(inv[p], "validate") /\ ~Passed(inv[p], "verify")
        /\ inv[p].payload.signature.signer # inv[p].payload.address
        /\ inv[p].payload.nonce = "n1" /\ "n1" \notin nonces
        /\ Emitted(inv[p], "validation_failed")

\* C32: the steps of a request-hook invocation are taken in the order parse,
\* validation, verification, nonce recording, AgentBook lookup, policy step
\* (count then increment in free-trial mode, pending insert in discount
\* mode), each at most once and none skipped; the nonce is recorded only for
\* a payload signed by the key of its address, the policy step is taken only
\* when the lookup gave an identifier, and the increment only below the cap.
C32_StepOrder ==
    \A p \in Procs :
        LET s == inv[p]
            policy == CASE mode.type = "free-trial" -> <<"count", "increment">>
                        [] mode.type = "discount" -> <<"pending">>
                        [] OTHER -> <<>>
            order == <<"parse", "validate", "verify", "record", "lookup">> \o policy
        IN  s.kind = "request" =>
                /\ Len(s.trace) <= Len(order)
                /\ \A i \in DOMAIN s.trace : s.trace[i] = order[i]
                /\ Passed(s, "record") =>
                        (s.payload.signature.wellFormed /\ s.payload.signature.signer = s.payload.address)
                /\ (Passed(s, "count") \/ Passed(s, "pending")) =>
                        (Registry(s.payload.address) # 0 /\ s.raised # "rpc")
                /\ Passed(s, "increment") => s.count < FreeTrialUses(mode)

\* C32 witness: a free-trial request has taken all seven steps in order.
C32_Witness ==
    \E p \in Procs :
        /\ SettledRequest(inv[p])
        /\ inv[p].trace = <<"parse", "validate", "verify", "record", "lookup", "count", "increment">>
        /\ inv[p].result = "grantAccess"


\* C33: a pending-discount record is single-use. The step in which a
\* verify-failure invocation looks up (resource path, payer) leaves no record
\* under that key; an invocation that finds no record settles at once with
\* no decision, no event, no counter change and no recovery; and a record
\* comes into being only in the step in which a discount-mode request hook
\* for that wallet finishes its lookup. So a second verify-failure
\* invocation for the key, with no such request hook in between, finds no
\* record and gives no decision.
C33_PendingSingleUse ==
    [][/\ \A p \in Procs :
            (inv[p].kind = "idle" /\ inv'[p].kind = "verifyFailure" /\ inv'[p].raised # "url") =>
                LET s == inv'[p]
                    payer == extractPayer(s.ctx.paymentPayload.payload)
                    key == PendingKey(s.resourcePath, payer)
                IN  (payer # Null /\ payer # Undefined /\ payer # "") =>
                        /\ key \notin DOMAIN pendingDiscounts'
                        /\ \A k \in DOMAIN pendingDiscounts \ {key} :
                                k \in DOMAIN pendingDiscounts' /\ pendingDiscounts'[k] = pendingDiscounts[k]
                        /\ key \notin DOMAIN pendingDiscounts =>
                                /\ s.pc = "done" /\ s.result = "none"
                                /\ s.pending = <<>> /\ s.events = <<>>
                                /\ usage' = usage /\ recoveries' = recoveries
                        /\ s.pending # <<>> =>
                                /\ key \in DOMAIN pendingDiscounts
                                /\ s.pending = pendingDiscounts[key]
       /\ \A k \in DOMAIN pendingDiscounts' \ DOMAIN pendingDiscounts :
            \E q \in Procs :
                /\ inv[q].kind = "request" /\ inv[q].pc = "lookup"
                /\ mode.type = "discount"
                /\ Passed(inv'[q], "pending")
                /\ k = PendingKey(inv[q].ctx.path, inv[q].payload.address)]_vars

\* C33 witness: wallet 0xA verified on /data and then underpaid twice in a
\* row; the first failure took the record and was recovered, and the
\* second, the same underpayment, has found none and was given no decision.
C33_Witness ==
    /\ calls = 3
    /\ pendingDiscounts = EmptyMap
    /\ usage = ("/data:0x1" :> 1)
    /\ recoveries[<<"/data", 1>>] = 1
    /\ \E p \in Procs :
        /\ SettledFailure(inv[p]) /\ inv[p].result = "none"
        /\ inv[p].ctx.paymentPayload.payload = Authorization("0xA", "500")
        /\ isUnderpaymentError(inv[p].ctx.error)
        /\ inv[p].pending = <<>> /\ inv[p].trace = <<>>


\* C34: a pending-discount record lives at most 5 minutes. A verify-failure
\* invocation that starts more than PENDING_TTL_MS after the request hook
\* stored the record under its (resource path, payer) does not take that
\* record: it settles in that step with no decision, no event and no
\* recovery, whether or not another request was processed in between.
C34_PendingExpires ==
    [][\A p \in Procs :
        (inv[p].kind = "idle" /\ inv'[p].kind = "verifyFailure" /\ inv'[p].raised # "url") =>
            LET s == inv'[p]
                payer == extractPayer(s.ctx.paymentPayload.payload)
                key == PendingKey(s.resourcePath, payer)
            IN  (/\ payer # Null /\ payer # Undefined /\ payer # ""
                 /\ key \in DOMAIN pendingDiscounts
                 /\ now - pendingDiscounts[key].createdAt > PENDING_TTL_MS) =>
                    /\ s.pending = <<>>
                    /\ s.pc = "done" /\ s.result = "none" /\ s.events = <<>>]_vars


\* C35: validateAgentkitMessage fails whenever the payload carries an
\* expirationTime that is no parseable timestamp, and whenever it carries a
\* notBefore that is no parseable timestamp, for every string value of those
\* fields, the empty string included: no such payload is accepted.
C35_UnparseableStampsFail ==
    \A p \in Procs :
        LET s == inv[p]
        IN  (/\ s.kind = "validate"
             /\ \/ Has(s.message, "expirationTime") /\ ~IsStamp(s.message.expirationTime)
                \/ Has(s.message, "notBefore") /\ ~IsStamp(s.message.notBefore)) =>
                s.result # "valid"


\* C36: parseAgentkitHeader checks the base64 alphabet, then parses JSON,
\* then validates the schema, and throws a distinct error for each class: a
\* header outside the alphabet fails as "not valid base64" whatever it would
\* decode to, base64 of something that is no JSON fails as "not valid JSON",
\* and JSON outside the schema fails with a third message. A payload is
\* returned only when all three pass: all of domain, address, uri, version,
\* chainId, type, nonce, issuedAt, signature are present and type is eip191
\* or ed25519. In the request hook the step in which the parse fails emits
\* validation_failed with that message, gives no decision, takes no further
\* step and changes no nonce, counter, pending record or grant.
C36_ParseOrder ==
    [][\A p \in Procs :
        (inv[p].kind = "idle" /\ inv'[p].kind = "request"
            /\ DOMAIN inv'[p].ctx.headers \cap {"agentkit", "Agentkit"} # {}
            /\ inv'[p].ctx.caseSensitive /\ "agentkit" \in DOMAIN inv'[p].ctx.headers) =>
            LET s == inv'[p]
                header == s.ctx.headers["agentkit"]
                notBase64 == "Invalid agentkit header: not valid base64"
                notJson == "Invalid agentkit header: not valid JSON"
                inSchema == /\ {"domain", "address", "uri", "version", "chainId", "type",
                                "nonce", "issuedAt", "signature"} \subseteq DOMAIN header.value
                            /\ header.value.type \in {"eip191", "ed25519"}
                passes == header.base64 /\ header.json /\ inSchema
                Failed(error) == s.events = <<[type |-> "validation_failed", resource |-> s.ctx.path,
                                               error |-> error]>>
            IN  /\ ~header.base64 => Failed(notBase64)
                /\ (header.base64 /\ ~header.json) => Failed(notJson)
                /\ (header.base64 /\ header.json /\ ~inSchema) =>
                        \E error \in {s.events[1].error} \ {notBase64, notJson} : Failed(error)
                /\ Passed(s, "parse") <=> passes
                /\ Passed(s, "parse") => \A f \in DOMAIN s.payload : s.payload[f] = header.value[f]
                /\ ~passes =>
                        /\ s.pc = "done" /\ s.result = "none" /\ s.trace = <<>>
                        /\ Len(s.events) = 1
                        /\ nonces' = nonces /\ usage' = usage
                        /\ pendingDiscounts' = pendingDiscounts
                        /\ grants' = grants /\ recoveries' = recoveries]_vars

\* C36 witness: a header of base64-encoded JSON that lacks the nonce was
\* refused with the schema's message, after an earlier request had recorded
\* nonce n1; nothing else has changed.
C36_Witness ==
    /\ nonces = {"n1"}
    /\ \E p \in Procs :
        /\ SettledRequest(inv[p]) /\ inv[p].result = "none"
        /\ "agentkit" \in DOMAIN inv[p].ctx.headers
        /\ inv[p].ctx.headers["agentkit"].base64 /\ inv[p].ctx.headers["agentkit"].json
        /\ "nonce" \notin DOMAIN inv[p].ctx.headers["agentkit"].value
        /\ inv[p].events = <<ValidationFailed("/data", "Invalid agentkit header: schema")>>


\* C37: a pending-discount record is consumed by at most one verify-failure
\* invocation, also when several of them for the same (resource path, payer)
\* run concurrently. The lookup and the delete are one step: the invocation
\* that comes to hold a record removes it from the map in the step in which
\* it reads it, and holds a record only if the map had one under its key.
\* So every recovered result has a request-hook invocation of its own that
\* stored its record: twice the number of recovered results never exceeds
\* the number of hook invocations.
C37_OneConsumerPerRecord ==
    [][/\ \A p \in Procs :
            (inv[p].kind = "idle" /\ inv'[p].kind = "verifyFailure" /\ inv'[p].pending # <<>>) =>
                LET s == inv'[p]
                    key == PendingKey(s.resourcePath, extractPayer(s.ctx.paymentPayload.payload))
                IN  /\ key \in DOMAIN pendingDiscounts
                    /\ s.pending = pendingDiscounts[key]
                    /\ key \notin DOMAIN pendingDiscounts'
       /\ \A p \in Procs :
            (inv[p].kind = "verifyFailure" /\ inv'[p].kind = "verifyFailure") =>
                inv'[p].pending = inv[p].pending
       /\ LET Total[S \in SUBSET (Paths \X Humans)] ==
                IF S = {} THEN 0
                ELSE LET k == CHOOSE k \in S : TRUE
                     IN  recoveries'[k] + Total[S \ {k}]
          IN  2 * Total[Paths \X Humans] <= calls']_vars

\* C37 witness: after one request of wallet 0xA on /data, two verify-failure
\* invocations for that wallet and path run at once; the first holds the
\* record and waits for the count, the second has found none and was given
\* no decision.
C37_Witness ==
    /\ calls = 3
    /\ pendingDiscounts = EmptyMap
    /\ \E p, q \in Procs :
        /\ inv[p].kind = "verifyFailure" /\ inv[p].pc = "count"
        /\ inv[p].pending # <<>> /\ inv[p].pending.address = "0xA"
        /\ inv[p].resourcePath = "/data"
        /\ SettledFailure(inv[q]) /\ inv[q].result = "none"
        /\ inv[q].resourcePath = "/data"
        /\ extractPayer(inv[q].ctx.paymentPayload.payload) = "0xA"
        /\ isUnderpaymentError(inv[q].ctx.error)
        /\ inv[q].pending = <<>>


\* The discount flow with hook invocations running at once: the two wallets
\* of human 1 verify on /data and their failed payments are reported while
\* another invocation is still waiting for the store.
NextDiscountRace ==
    LET CanStartRace(p) ==
            /\ NoneSettled
            /\ inv[p].kind = "idle"
            /\ \A q \in Procs : q < p => inv[q].kind # "idle"
            /\ calls < MaxSeqCalls
    IN  \/ \E p \in Procs : \E ctx \in DiscountRequests : CanStartRace(p) /\ RequestStart(p, ctx)
        \/ \E p \in Procs : NoneSettled /\ RequestAfterVerify(p)
        \/ \E p \in Procs : NoneSettled /\ RequestAfterLookup(p)
        \/ \E p \in Procs : \E ctx \in DiscountSeqFailures : CanStartRace(p) /\ VerifyFailureStart(p, ctx)
        \/ \E p \in Procs : NoneSettled /\ VerifyFailureAfterCount(p)
        \/ \E p \in Procs : Release(p)

SpecDiscountRace == InitDiscountSeq /\ [][NextDiscountRace]_vars

\* C38: in discount mode with a uses cap U, when verify-failure hooks for
\* the same human and resource path (through different wallets, each with
\* its own pending record) run concurrently, the recovered results for that
\* (resource path, human) never exceed U, however the counter reads and the
\* counter increments interleave.
C38_DiscountCapConcurrent ==
    mode.hasUses => \A k \in Paths \X Humans : recoveries[k] <= mode.uses


\* C39: a verify-failure invocation whose error is not in the underpayment
\* set still removes the pending-discount record of its (resource path,
\* payer): in the step in which it starts the record leaves the map, and it
\* settles with no decision, no event and no counter change. A later
\* underpayment failure for the same payer and path, no request hook having
\* stored a record in between, therefore finds none and is given no
\* decision.
C39_OtherErrorConsumesRecord ==
    [][\A p \in Procs :
        (inv[p].kind = "idle" /\ inv'[p].kind = "verifyFailure" /\ inv'[p].raised # "url") =>
            LET s == inv'[p]
                payer == extractPayer(s.ctx.paymentPayload.payload)
                key == s.resourcePath \o ":" \o payer
                underpayment == Head(s.ctx.error.message) \in UNDERPAYMENT_REASONS
            IN  (payer # Null /\ payer # Undefined /\ payer # "") =>
                    /\ (~underpayment /\ key \in DOMAIN pendingDiscounts) =>
                            /\ key \notin DOMAIN pendingDiscounts'
                            /\ s.pc = "done" /\ s.result = "none" /\ s.events = <<>>
                            /\ s.trace = <<>>
                            /\ usage' = usage /\ recoveries' = recoveries
                    /\ (underpayment /\ key \notin DOMAIN pendingDiscounts) =>
                            /\ s.pc = "done" /\ s.result = "none" /\ s.events = <<>>
                            /\ pendingDiscounts' = pendingDiscounts
                            /\ usage' = usage /\ recoveries' = recoveries]_vars

\* C39 witness: wallet 0xA verified on /data and its payment then failed
\* with invalid_signature; the invocation took the record of (/data, 0xA),
\* gave no decision, and the map holds no record for a later underpayment.
C39_Witness ==
    /\ calls = 2
    /\ pendingDiscounts = EmptyMap
    /\ usage = EmptyMap
    /\ \E p \in Procs :
        /\ SettledFailure(inv[p]) /\ inv[p].result = "none"
        /\ inv[p].ctx = FailureContext(DataUrl, Authorization("0xA", "500"), "1000",
                                       <<"invalid_signature", ":", " bad">>)
        /\ inv[p].pending # <<>> /\ inv[p].pending.address = "0xA"
        /\ inv[p].events = <<>>


\* C40: every request-hook invocation emits at most one event, and its
\* result matches the event: it settles with grantAccess or with no
\* decision, with grantAccess if and only if it emitted agent_verified; an
\* invocation that emitted validation_failed or agent_not_verified gives no
\* decision, and so does one that emitted nothing, which happens only
\* without a header, when the free trial is exhausted, and in discount mode.
C40_OneEventMatchesResult ==
    \A p \in Procs :
        LET s == inv[p]
            Types == {s.events[i].type : i \in DOMAIN s.events}
        IN  s.kind = "request" =>
                /\ Len(s.events) <= 1
                /\ Types \subseteq {"agent_verified", "agent_not_verified", "validation_failed"}
                /\ s.pc # "done" => s.events = <<>>
                /\ s.pc = "done" =>
                    /\ s.result \in {"grantAccess", "none"}
                    /\ s.result = "grantAccess" <=> "agent_verified" \in Types
                    /\ (Types \cap {"validation_failed", "agent_not_verified"} # {}) => s.result = "none"
                    /\ s.events = <<>> =>
                        /\ s.result = "none"
                        /\ \/ ~RequestHeader(s.ctx).present
                           \/ /\ mode.type = "free-trial" /\ Passed(s, "count")
                              /\ s.count >= FreeTrialUses(mode)
                           \/ mode.type = "discount" /\ Passed(s, "pending")

\* C40 witness: in free-trial mode a request of a registered agent below the
\* cap was granted access and emitted exactly one event, agent_verified.
C40_Witness ==
    /\ mode.type = "free-trial"
    /\ \E p \in Procs :
        /\ SettledRequest(inv[p]) /\ inv[p].result = "grantAccess"
        /\ Len(inv[p].events) = 1 /\ inv[p].events[1].type = "agent_verified"
        /\ Passed(inv[p], "increment")

====
